---------------------------- MODULE Spec2Model ----------------------------
(***************************************************************************)
(* State-machine model of the audio engines of ProyectoSubs               *)
(* (BinauralEngine, IsocronicEngine, SilentEngine, SupraliminalEngine)    *)
(* and of the AudioMixer context lifecycle.                               *)
(*                                                                         *)
(* Time is the render clock in ticks of 10 ms.  Every AudioParam that the *)
(* code automates is a timeline of scheduled events whose times are kept  *)
(* relative to "now" (currentTime); a Tick shifts every timeline and      *)
(* every pending timer by one.                                            *)
(*                                                                         *)
(* Frequencies are in units of 0.1 Hz, gains in units of 0.0001.          *)
(***************************************************************************)
EXTENDS Integers, Sequences, FiniteSets, TLC

(***************************************************************************)
(* Bounds of the model                                                     *)
(***************************************************************************)
MaxOps == 3
MaxFreqOps == 2
MaxCalls == 3
MaxLayers == 2
MaxSupraOps == 4
MaxVoices == MaxSupraOps * MaxLayers
MAX_POOL_SIZE == 20
MaxNodes == MAX_POOL_SIZE + MaxVoices
MaxEngines == 2
MaxMixerOps == 4
MaxLayerOps == 2
MaxMessageOps == 2
MessageLength == 3
MaxClipOps == 3
MaxSamples == 2
MaxPoolOps == 3
MaxSends == MaxMixerOps
MaxGraphs == MaxMixerOps
MaxGains == MaxMixerOps + 1
MaxCtx == MaxOps + 1

(***************************************************************************)
(* Program constants                                                       *)
(***************************************************************************)
GainOne == 10000
Epsilon == 1

CARRIER_min == 2000
CARRIER_max == 10000
BEAT_min == 5
BEAT_max == 1000
ISOCHRONIC_min == 5
ISOCHRONIC_max == 400

BINAURAL_INITIAL_VOLUME == 1000
ISOCHRONIC_INITIAL_VOLUME == 1500
MESSAGE_VOLUME == 500

BINAURAL_FADE == 5
ISOCHRONIC_FADE == 5
SUBLIMINAL_FADE == 10
ASYNC_BUFFER == 1
ISOCHRONIC_BUFFER == 1
SUBLIMINAL_BUFFER == 5
SettleDelay == 5
VolumeRamp == 5
FREQUENCY_RAMP_TIME == 10
SUBLIMINAL_CARRIER == 175000
BisectDepth == 6

\* SupraliminalEngine: the silence floor 0.0001, DEFAULT_FADE_CONFIG, the
\* waits of stop() and restart(), the ramp of updateLayer(), the defaults of
\* addLayer() (rates and pans in units of 0.0001 like the gains)
FLOOR == 1
SUPRA_FADE_IN == 5
SUPRA_FADE_OUT == 10
SUPRA_STOP_BUFFER == 5
RESTART_DELAY == 10
LAYER_RAMP == 10
DEFAULT_PLAYBACK_RATE == 10000
DEFAULT_PAN == 0
DEFAULT_VOLUME == 10000
DEFAULT_START_OFFSET == 0

\* AudioMixer: MIXER_CONFIG.MASTER_VOLUME, the default fade-in of
\* connectEngine(), the fade-outs of disconnectEngine() and of dispose(),
\* the extra wait of disconnectEngine()
MASTER_VOLUME == 8000
CONNECT_FADE == 5
DISCONNECT_FADE == 10
DISPOSE_FADE == 5
DISCONNECT_BUFFER == 5

\* AudioMixer: the ramps of muteEngine(), setEngineVolume() and
\* setMasterVolume(), the upper clamps of the two volume setters
MUTE_RAMP == 5
ENGINE_VOLUME_RAMP == 10
MASTER_VOLUME_RAMP == 10
MAX_ENGINE_VOLUME == 20000
MAX_MASTER_VOLUME == 15000

Kinds == {"binaural", "isochronic", "silent"}

\* a session is a Silent engine and an AudioMixer built on one shared context
ToneKinds == Kinds \cup {"session"}
MixerKinds == {"mixer", "session"}

(***************************************************************************)
(* AudioParam automation timeline                                          *)
(***************************************************************************)
Min(a, b) == IF a < b THEN a ELSE b
Max(a, b) == IF a > b THEN a ELSE b

Ev(k, v, t) == [k |-> k, v |-> v, t |-> t]

\* index of the last event whose time is <= t (0 when there is none)
LastUpTo(tl, t) ==
  LET S == {i \in 1..Len(tl) : tl[i].t <= t}
  IN IF S = {} THEN 0 ELSE CHOOSE i \in S : \A j \in S : j <= i

\* insertEvent: after every event with the same or an earlier time
Schedule(tl, e) ==
  LET i == LastUpTo(tl, e.t)
  IN SubSeq(tl, 1, i) \o <<e>> \o SubSeq(tl, i + 1, Len(tl))

\* cancelScheduledValues(now): drop every event at or after now
CancelScheduledValues(tl) ==
  LET S == {i \in 1..Len(tl) : tl[i].t < 0}
      n == IF S = {} THEN 0 ELSE CHOOSE i \in S : \A j \in S : j <= i
  IN SubSeq(tl, 1, n)

\* integer square root (Newton's iteration from above)
RECURSIVE SqrtFrom(_, _)
SqrtFrom(n, x) ==
  LET y == (x + n \div x) \div 2
  IN IF y >= x THEN x ELSE SqrtFrom(n, y)

ISqrt(n) == IF n < 2 THEN n ELSE SqrtFrom(n, n)

\* a * (b / a)^(k / n) for 0 <= k <= n and a, b > 0, by bisection of the
\* exponent with geometric means, to BisectDepth binary digits
RECURSIVE GeoInterp(_, _, _, _, _)
GeoInterp(a, b, k, n, d) ==
  IF k = 0 \/ d = 0 THEN a
  ELSE IF k = n THEN b
  ELSE LET mid == ISqrt(a * b)
       IN IF 2 * k < n THEN GeoInterp(a, mid, 2 * k, n, d - 1)
          ELSE GeoInterp(mid, b, 2 * k - n, n, d - 1)

\* value at time 0 on the segment from event a to ramp event b.  An
\* exponential ramp that starts from 0 holds 0 until its end time.
RampValue(a, b) ==
  IF b.t = a.t THEN b.v
  ELSE IF b.k = "exp"
       THEN IF a.v <= 0 \/ b.v <= 0 THEN a.v
            ELSE LET g == GeoInterp(a.v, b.v, 0 - a.t, b.t - a.t, BisectDepth)
                 IN \* the target itself is reached only at the end time
                    IF a.v > b.v THEN Max(g, b.v + 1)
                    ELSE IF a.v < b.v THEN Min(g, b.v - 1)
                    ELSE g
       ELSE a.v + ((b.v - a.v) * (0 - a.t)) \div (b.t - a.t)

\* AudioParam.value at currentTime
Value(tl) ==
  LET i == LastUpTo(tl, 0)
  IN IF i = 0 THEN 0
     ELSE IF i < Len(tl) /\ tl[i + 1].k # "set"
          THEN RampValue(tl[i], tl[i + 1])
          ELSE tl[i].v

\* cancelScheduledValues(now); setValueAtTime(param.value, now)
PinAtCurrent(tl) == Schedule(CancelScheduledValues(tl), Ev("set", Value(tl), 0))

\* one tick of the render clock: times shift, events that can no longer
\* influence the value are forgotten
Advance(tl) ==
  LET sh == [j \in 1..Len(tl) |-> Ev(tl[j].k, tl[j].v, tl[j].t - 1)]
      i == LastUpTo(sh, 0)
  IN IF i = 0 THEN sh
     ELSE IF i = Len(sh) THEN <<Ev("set", sh[i].v, 0)>>
     ELSE IF sh[i + 1].k = "set"
          THEN <<Ev("set", sh[i].v, 0)>> \o SubSeq(sh, i + 1, Len(sh))
          ELSE <<Ev("set", sh[i].v, sh[i].t)>> \o SubSeq(sh, i + 1, Len(sh))

\* is automation still scheduled after now?
Pending(tl) == \E j \in 1..Len(tl) : tl[j].t > 0


(***************************************************************************)
(* State                                                                   *)
(***************************************************************************)
VARIABLES
  kind,               \* which engine class this instance is
  externalContext,    \* constructed with a shared AudioContext
  context,            \* this.context: 0 = null, else a context id
  ctxState,           \* per context id: "none", "suspended", "running" or "closed"
  masterGain,         \* this.masterGain: 0 = null, else a gain node id
  gainParam,          \* per gain node id: the timeline of its gain AudioParam
  state,              \* this.state (PlaybackState)
  currentCarrierFreq, \* this.currentCarrierFreq / currentToneFreq
  currentBeatFreq,    \* this.currentBeatFreq / currentPulseRate
  subGraph,           \* the oscillator references: 0 = all null, else a sub-graph id
  graphs,             \* every sub-graph built so far
  stopTimeout,        \* this.stopTimeout: 0 = null, else the call whose timer it is
  calls,              \* the asynchronous invocations in flight
  microtasks,         \* continuations that run before the next timer or event
  result,             \* how the most recent call returned or was rejected
  disposed,           \* a dispose() has run to completion
  opsLeft,            \* calls the environment may still issue
  freqInputs,         \* (carrier, beat) pairs the environment uses
  volumeInputs,       \* percentages the environment uses
  layers,             \* SupraliminalEngine.layers: per layer id its config
  activeNodes,        \* SupraliminalEngine.activeNodes: layer id -> voice (0 = none)
  voices,             \* every LayerNodes built so far
  isPlaying,          \* SupraliminalEngine.isPlaying
  exactValue,         \* AudioParam.value reads back 0.0001 unrounded
  inputNode,          \* AudioMixer.inputNode is not null
  isInitialized,      \* AudioMixer.isInitialized
  connectedEngines,   \* AudioMixer.connectedEngines: per engine id its entry
  mixerMasterGain,    \* AudioMixer.masterGain: 0 = null, else a gain node id
  masterVolume,       \* this.masterVolume of the mixer or the Supraliminal engine
  sendGains,          \* every send-gain node connectEngine() has created
  layerInputs,        \* option objects the environment passes to addLayer()
  audioBuffer,        \* SilentEngine.audioBuffer: 0 = null, else the file decoded
  audioFileInfo,      \* SilentEngine.audioFileInfo: 0 = null, else the file described
  autoplayBlocked,    \* the host's autoplay policy: a new context starts suspended
  listeners,          \* event types with a resumeOnInteraction listener on document
  droppedFrames,      \* AudioMixer.performanceMetrics.droppedFrames
  nodePool            \* SupraliminalEngine.nodePool: per node type its stack

vars == <<kind, externalContext, context, ctxState, masterGain, gainParam,
          state, currentCarrierFreq, currentBeatFreq, subGraph, graphs,
          stopTimeout, calls, microtasks, result, disposed, opsLeft,
          freqInputs, volumeInputs, layers, activeNodes, voices, isPlaying,
          exactValue, inputNode, isInitialized, connectedEngines,
          mixerMasterGain, masterVolume, sendGains, layerInputs, audioBuffer,
          audioFileInfo, autoplayBlocked, listeners, droppedFrames,
          nodePool>>

messageVars == <<audioBuffer, audioFileInfo>>

supraVars == <<layers, activeNodes, voices, isPlaying>>
mixerVars == <<inputNode, isInitialized, connectedEngines, mixerMasterGain,
               masterVolume, sendGains>>

SharedCtx == 1

\* the options of addLayer(): a field that the caller omits is <<>>, one
\* that is given is <<value>>
NoOptions == [playbackRate |-> <<>>, pan |-> <<>>, volume |-> <<>>,
              startTimeOffset |-> <<>>, enabled |-> <<>>, filter |-> <<>>]

\* the argument of loadAudioFile(): a File, or a Blob (which has no name)
NoFile == [id |-> 0, isFile |-> FALSE]

NoCall == [op |-> "none", pc |-> "none", t |-> 0, carrier |-> 0, beat |-> 0,
           ctx |-> 0, node |-> 0, todo |-> <<>>, opts |-> NoOptions,
           loop |-> FALSE, file |-> NoFile, url |-> FALSE]

\* this.messageSource of a sub-graph: the ticks of the buffer still to play,
\* whether onended is set, and the "ended" event ("no", "queued", "done")
NoMessage == [present |-> FALSE, loop |-> FALSE, remaining |-> 0,
              onended |-> FALSE, ended |-> "no"]
NoGraph == [alive |-> FALSE, left |-> <<>>, right |-> <<>>, gain |-> 0,
            messageSource |-> NoMessage]
Ok == [op |-> "none", code |-> "OK"]

Slots == 1..MaxCalls
PlayOps == {"play", "playWithAM"}
LayerIds == 1..MaxLayers
NoLayer == [present |-> FALSE, enabled |-> FALSE, volume |-> 0, filter |-> FALSE,
            playbackRate |-> 0, pan |-> 0, startTimeOffset |-> 0]
NodeTypes == {"gain", "panner", "filter"}
NoNodes == [t \in NodeTypes |-> 0]
EmptyPool == [t \in NodeTypes |-> <<>>]
NoVoice == [alive |-> FALSE, layer |-> 0, gain |-> <<>>, filter |-> FALSE,
            nodes |-> NoNodes]
EngineIds == 1..MaxEngines
NoEngine == [present |-> FALSE, node |-> 0, volume |-> 0, muted |-> FALSE,
             solo |-> FALSE]
NoSend == [connected |-> FALSE, gain |-> <<>>, input |-> 0]

IsSilent == kind \in {"silent", "session"}

INITIAL_VOLUME == CASE kind = "binaural" -> BINAURAL_INITIAL_VOLUME
                    [] kind = "isochronic" -> ISOCHRONIC_INITIAL_VOLUME
                    [] OTHER -> MESSAGE_VOLUME

FadeOutDuration == CASE kind = "binaural" -> BINAURAL_FADE
                     [] kind = "isochronic" -> ISOCHRONIC_FADE
                     [] OTHER -> SUBLIMINAL_FADE

FadeInDuration == FadeOutDuration

StopDelay == CASE kind = "binaural" -> BINAURAL_FADE + ASYNC_BUFFER
               [] kind = "isochronic" -> ISOCHRONIC_FADE + ISOCHRONIC_BUFFER
               [] OTHER -> SUBLIMINAL_FADE + SUBLIMINAL_BUFFER

\* inputs of the lifecycle runs: one valid and one invalid pair, one volume
TimingFreqs == {<<4400, 100>>, <<1999, 100>>}
TimingVolumes == {50}

\* inputs of the frequency runs: each limit and its nearest value outside
BoundaryFreqs ==
  {<<c, 100>> : c \in {CARRIER_min - 1, CARRIER_min, CARRIER_max, CARRIER_max + 1}}
  \cup {<<4400, b>> : b \in {BEAT_min - 1, BEAT_min, ISOCHRONIC_max,
                              ISOCHRONIC_max + 1, BEAT_max, BEAT_max + 1}}

\* an engine or mixer just constructed; blocked is the autoplay policy of
\* the host and shared the state of the context that the page shares; vs and
\* np are the LayerNodes and the pooled nodes of a Supraliminal engine
InitEngineWith(k, ext, blocked, shared, vs, np) ==
  /\ kind = k
  /\ externalContext = ext
  /\ context = IF ext THEN SharedCtx ELSE 0
  /\ ctxState = [c \in 1..MaxCtx |-> IF c = SharedCtx THEN shared ELSE "none"]
  /\ autoplayBlocked = blocked
  /\ listeners = {}
  /\ droppedFrames = 0
  /\ masterGain = 0
  /\ gainParam = [g \in 1..MaxGains |-> <<>>]
  /\ state = "idle"
  /\ currentCarrierFreq = 0
  /\ currentBeatFreq = 0
  /\ subGraph = 0
  /\ graphs = [g \in 1..MaxGraphs |-> NoGraph]
  /\ stopTimeout = 0
  /\ calls = [s \in Slots |-> NoCall]
  /\ microtasks = <<>>
  /\ result = Ok
  /\ disposed = FALSE
  /\ audioBuffer = 0
  /\ audioFileInfo = 0
  /\ layers = [l \in LayerIds |-> NoLayer]
  /\ activeNodes = [l \in LayerIds |-> 0]
  /\ voices = vs
  /\ nodePool = np
  /\ isPlaying = FALSE
  /\ inputNode = FALSE
  /\ isInitialized = FALSE
  /\ connectedEngines = [e \in EngineIds |-> NoEngine]
  /\ mixerMasterGain = 0
  /\ masterVolume = IF k \in MixerKinds THEN MASTER_VOLUME ELSE GainOne
  /\ sendGains = [n \in 1..MaxSends |-> NoSend]

\* no LayerNodes built yet, the pools empty
InitEngineOn(k, ext, blocked, shared) ==
  InitEngineWith(k, ext, blocked, shared, [v \in 1..MaxVoices |-> NoVoice],
                 EmptyPool)

InitEngine(k, ext) == InitEngineOn(k, ext, FALSE, "running")

\* a Silent engine may be constructed on a shared context (new SilentEngine(ctx))
Init ==
  /\ \E k \in Kinds, ext \in BOOLEAN :
       /\ ext => k = "silent"
       /\ InitEngine(k, ext)
  /\ opsLeft = MaxOps
  /\ freqInputs = TimingFreqs
  /\ volumeInputs = TimingVolumes
  /\ exactValue = FALSE
  /\ layerInputs = {NoOptions}

InitFreq ==
  /\ \E k \in {"binaural", "isochronic"} : InitEngine(k, FALSE)
  /\ opsLeft = MaxFreqOps
  /\ freqInputs = BoundaryFreqs
  /\ volumeInputs = TimingVolumes
  /\ exactValue = FALSE
  /\ layerInputs = {NoOptions}


(***************************************************************************)
(* Helpers                                                                 *)
(***************************************************************************)
fixedVars == <<kind, externalContext, freqInputs, volumeInputs, exactValue,
               layerInputs, autoplayBlocked>>

\* the inputs and the loaded message: what only loadAudioFile() changes
\* what no action of the Supraliminal engine changes but the node pool
restVars == <<fixedVars, messageVars, listeners, droppedFrames>>

frameVars == <<restVars, nodePool>>

\* new AudioContext(): suspended when the autoplay policy blocks it
NewContextState == IF autoplayBlocked THEN "suspended" ELSE "running"

\* what no operation of a tone engine touches
constVars == <<frameVars, supraVars, mixerVars>>

Free(s) == calls[s].op = "none"
HasFreeSlot == \E s \in Slots : Free(s)
FreeSlot == CHOOSE s \in Slots : Free(s) /\ \A r \in Slots : r < s => ~Free(r)

NextId(used, max) == CHOOSE i \in 1..max : i \notin used /\ \A j \in 1..max : j < i => j \in used
UsedGraphs == {g \in 1..MaxGraphs : graphs[g].gain # 0}
UsedGains == {g \in 1..MaxGains : gainParam[g] # <<>>}
UsedCtx == {c \in 1..MaxCtx : ctxState[c] # "none" \/ c = SharedCtx}

Call(op, pc, t, carrier, beat, ctx) ==
  [op |-> op, pc |-> pc, t |-> t, carrier |-> carrier, beat |-> beat,
   ctx |-> ctx, node |-> 0, todo |-> <<>>, opts |-> NoOptions,
   loop |-> FALSE, file |-> NoFile, url |-> FALSE]

Res(op, code) == [op |-> op, code |-> code]

\* a rejection that carries the error it wraps
Rejected(op, code, cause) == [op |-> op, code |-> code, cause |-> cause]

\* setValueAtTime(v, now) followed by linearRampToValueAtTime(target, now + d)
SetThenRamp(tl, v, target, d) ==
  Schedule(Schedule(tl, Ev("set", v, 0)), Ev("lin", target, d))

(***************************************************************************)
(* Validation                                                              *)
(***************************************************************************)
\* a carrier check that forgets the lower limit
CarrierUpperLimitOnly(freq) == ~(freq > CARRIER_max)

\* TRUE when the check passes, FALSE when it throws INVALID_FREQUENCY
validateCarrierFrequency(freq) == ~(freq < CARRIER_min \/ freq > CARRIER_max)

validateBeatFrequency(freq) == ~(freq < BEAT_min \/ freq > BEAT_max)

validatePulseRate(rate) == ~(rate < ISOCHRONIC_min \/ rate > ISOCHRONIC_max)

\* the validation at the head of play() and of updateFrequencies()
ValidFrequencies(carrier, beat) ==
  CASE kind = "binaural" ->
         validateCarrierFrequency(carrier) /\ validateBeatFrequency(beat)
    [] kind = "isochronic" ->
         validateCarrierFrequency(carrier) /\ validatePulseRate(beat)
    [] OTHER -> TRUE

\* TRUE when the check passes, FALSE when it throws INVALID_VOLUME
validateVolume(percentage) == ~(percentage < 0 \/ percentage > 100)

Pow10(n) == IF n = 0 THEN 1 ELSE IF n = 1 THEN 10 ELSE 100

\* 10^(clamped/50 - 1), exact for the multiples of 50
percentageToGain(percentage) ==
  LET clamped == Max(0, Min(100, percentage))
  IN (GainOne * Pow10(clamped \div 50)) \div 10

\* the two oscillator frequencies a sub-graph is built with
LeftFrequency(carrier, beat) ==
  IF IsSilent THEN SUBLIMINAL_CARRIER ELSE carrier

\* a right channel that plays the carrier unshifted
RightFrequencyUnshifted(carrier, beat) ==
  IF kind = "binaural" THEN carrier ELSE beat

RightFrequency(carrier, beat) ==
  IF kind = "binaural" THEN carrier + beat ELSE beat


(***************************************************************************)
(* init(): the AudioContext and the base nodes                             *)
(***************************************************************************)
\* initializeNodes() / the masterGain creation of init(): a fresh gain node
\* whose gain.value is the configured initial volume
initializeNodes ==
  LET g == NextId(UsedGains, MaxGains)
  IN /\ masterGain' = g
     /\ gainParam' = [gainParam EXCEPT ![g] = <<Ev("set", INITIAL_VOLUME, 0)>>]

NeedsNodes ==
  context = 0 \/ (IsSilent /\ externalContext)

CanInit ==
  /\ context = 0 => UsedCtx # 1..MaxCtx
  /\ NeedsNodes => UsedGains # 1..MaxGains

init ==
  IF context # 0
  THEN /\ UNCHANGED <<context, ctxState>>
       /\ IF IsSilent /\ externalContext
          THEN initializeNodes
          ELSE UNCHANGED <<masterGain, gainParam>>
  ELSE LET c == NextId(UsedCtx, MaxCtx)
       IN /\ context' = c
          /\ ctxState' = [ctxState EXCEPT ![c] = NewContextState]
          /\ initializeNodes

\* initializeNodes() creates the output node together with the master gain
\* and connects the master gain to it: the pair carries one id, 0 for null
outputNode == masterGain

\* the output node of an engine that is handed to a mixer modelled alone
ForeignOutput == MaxGains + 1

\* engine.getOutputNode() as connectEngine() reads it
getOutputNode == IF kind = "session" THEN outputNode ELSE ForeignOutput

(***************************************************************************)
(* stop(): the synchronous part, up to the wait for the teardown timer     *)
(***************************************************************************)
\* Called with state = PLAYING by the call in slot s (a stop(), or the stop()
\* inside a play() or a dispose()).  The caller's record is c.
stopBegin(s, c, mq) ==
  LET cleared == [r \in Slots |->
                    IF ~IsSilent /\ r = stopTimeout
                    THEN [calls[r] EXCEPT !.pc = "cleared"] ELSE calls[r]]
  IN
  /\ state' = "stopping"
  /\ IF context = 0 \/ masterGain = 0
     THEN \* returns at once; an awaiting caller resumes in a microtask
          /\ UNCHANGED gainParam
          /\ stopTimeout' = IF IsSilent THEN stopTimeout ELSE 0
          /\ IF c.op = "stop"
             THEN calls' = cleared /\ microtasks' = mq
             ELSE /\ calls' = [cleared EXCEPT ![s] = [c EXCEPT !.pc = "stopped"]]
                  /\ microtasks' = Append(mq, s)
     ELSE /\ gainParam' = [gainParam EXCEPT ![masterGain] =
                SetThenRamp(@, Value(@), 0, FadeOutDuration)]
          /\ stopTimeout' = IF IsSilent THEN stopTimeout ELSE s
          /\ calls' = [cleared EXCEPT ![s] =
                [c EXCEPT !.pc = "stopTimer", !.t = StopDelay]]
          /\ microtasks' = mq

(***************************************************************************)
(* play(): the part after the implicit stop, building the sub-graph        *)
(***************************************************************************)
\* playWithAM(): the buffer source that carries the message; without loop
\* its onended handler calls stop()
createMessageSource(loop) ==
  [present |-> TRUE, loop |-> loop, remaining |-> MessageLength,
   onended |-> ~loop, ended |-> "no"]

build(s) ==
  LET c == calls[s] IN
  IF context = 0 \/ masterGain = 0
  THEN \* throws CONTEXT_NOT_INITIALIZED; the catch block sets IDLE
       /\ state' = "idle"
       /\ result' = Res(c.op, "CONTEXT_NOT_INITIALIZED")
       /\ calls' = [calls EXCEPT ![s] = NoCall]
       /\ UNCHANGED <<graphs, subGraph, gainParam, currentCarrierFreq,
                      currentBeatFreq>>
  ELSE LET g == NextId(UsedGraphs, MaxGraphs)
           currentVolume == Value(gainParam[masterGain])
       IN /\ graphs' = [graphs EXCEPT ![g] =
                [alive |-> TRUE,
                 left |-> <<Ev("set", LeftFrequency(c.carrier, c.beat), 0)>>,
                 right |-> <<Ev("set", RightFrequency(c.carrier, c.beat), 0)>>,
                 gain |-> masterGain,
                 messageSource |-> IF c.op = "playWithAM"
                                   THEN createMessageSource(c.loop)
                                   ELSE NoMessage]]
          /\ subGraph' = g
          /\ gainParam' = [gainParam EXCEPT ![masterGain] =
                SetThenRamp(@, 0, currentVolume, FadeInDuration)]
          /\ currentCarrierFreq' =
                IF IsSilent THEN currentCarrierFreq ELSE c.carrier
          /\ currentBeatFreq' = c.beat
          /\ state' = "playing"
          /\ result' = Res(c.op, "OK")
          /\ calls' = [calls EXCEPT ![s] = NoCall]


(***************************************************************************)
(* dispose(): the part after its stop() has returned                       *)
(***************************************************************************)
disposeAfterStop(s, st) ==
  IF IsSilent
  THEN /\ masterGain' = 0
       /\ IF context # 0 /\ ~externalContext
          THEN /\ calls' = [calls EXCEPT ![s] =
                     Call("dispose", "close", 0, 0, 0, context)]
               /\ state' = st
               /\ UNCHANGED <<disposed, result>>
          ELSE /\ calls' = [calls EXCEPT ![s] = NoCall]
               /\ state' = "idle"
               /\ disposed' = TRUE
               /\ result' = Res("dispose", "OK")
  ELSE IF context # 0
       THEN /\ calls' = [calls EXCEPT ![s] =
                  Call("dispose", "close", 0, 0, 0, context)]
            /\ state' = st
            /\ UNCHANGED <<masterGain, disposed, result>>
       ELSE /\ calls' = [calls EXCEPT ![s] = NoCall]
            /\ masterGain' = 0
            /\ state' = "idle"
            /\ disposed' = TRUE
            /\ result' = Res("dispose", "OK")

(***************************************************************************)
(* Public operations: the synchronous part of each call                    *)
(***************************************************************************)
PlayCall(carrier, beat) ==
  /\ kind \in ToneKinds
  /\ opsLeft > 0
  /\ opsLeft' = opsLeft - 1
  /\ IF ~ValidFrequencies(carrier, beat)
     THEN \* the validator throws; the catch block sets IDLE and rethrows
          /\ state' = "idle"
          /\ result' = Res("play", "INVALID_FREQUENCY")
          /\ UNCHANGED <<context, ctxState, masterGain, gainParam, calls,
                         microtasks>>
     ELSE /\ HasFreeSlot
          /\ CanInit
          /\ init
          /\ calls' = [calls EXCEPT ![FreeSlot] =
                Call("play", "init", 0, carrier, beat, 0)]
          /\ microtasks' = Append(microtasks, FreeSlot)
          /\ UNCHANGED <<state, result>>
  /\ UNCHANGED <<currentCarrierFreq, currentBeatFreq, subGraph, graphs,
                 stopTimeout, disposed, constVars>>

\* play() resumes after "await this.init()"
PlayAfterInit ==
  /\ kind \in ToneKinds
  /\ microtasks # <<>>
  /\ LET s == Head(microtasks) IN
       /\ calls[s].op \in PlayOps
       /\ calls[s].pc = "init"
       /\ IF state = "playing"
          THEN /\ stopBegin(s, calls[s], Tail(microtasks))
               /\ UNCHANGED <<graphs, subGraph, currentCarrierFreq,
                              currentBeatFreq, result>>
          ELSE /\ build(s)
               /\ microtasks' = Tail(microtasks)
               /\ UNCHANGED stopTimeout
  /\ UNCHANGED <<context, ctxState, masterGain, disposed, opsLeft, constVars>>


\* play() resumes after an "await this.stop()" that returned at once
PlayAfterStop ==
  /\ kind \in ToneKinds
  /\ microtasks # <<>>
  /\ LET s == Head(microtasks) IN
       /\ calls[s].op \in PlayOps
       /\ calls[s].pc = "stopped"
       /\ calls' = [calls EXCEPT ![s] = [@ EXCEPT !.pc = "settle", !.t = SettleDelay]]
  /\ microtasks' = Tail(microtasks)
  /\ UNCHANGED <<context, ctxState, masterGain, gainParam, state,
                 currentCarrierFreq, currentBeatFreq, subGraph, graphs,
                 stopTimeout, result, disposed, opsLeft, constVars>>

\* play() resumes after "await this.delay(50)"
PlayAfterSettle(s) ==
  /\ kind \in ToneKinds
  /\ microtasks = <<>>
  /\ calls[s].op \in PlayOps
  /\ calls[s].pc = "settle"
  /\ calls[s].t = 0
  /\ build(s)
  /\ UNCHANGED <<context, ctxState, masterGain, stopTimeout, microtasks,
                 disposed, opsLeft, constVars>>

StopCall ==
  /\ kind \in ToneKinds
  /\ opsLeft > 0
  /\ opsLeft' = opsLeft - 1
  /\ IF state # "playing"
     THEN /\ result' = Res("stop", "OK")
          /\ UNCHANGED <<state, gainParam, stopTimeout, calls, microtasks>>
     ELSE /\ HasFreeSlot
          /\ stopBegin(FreeSlot, Call("stop", "none", 0, 0, 0, 0), microtasks)
          /\ result' = IF context = 0 \/ masterGain = 0
                       THEN Res("stop", "OK") ELSE result
  /\ UNCHANGED <<context, ctxState, masterGain, currentCarrierFreq,
                 currentBeatFreq, subGraph, graphs, disposed, constVars>>

\* messageSource.stop() ends the source, so its "ended" event is dispatched
\* if it has not been yet
stopSource(m) ==
  IF m.present /\ m.onended /\ m.ended = "no"
  THEN [m EXCEPT !.ended = "queued"] ELSE m

\* stopAndDisconnectNodes(): the nodes the engine references are stopped and
\* disconnected, the references are cleared and the volume is restored
teardownNodes ==
  /\ graphs' = IF subGraph = 0 THEN graphs
               ELSE [graphs EXCEPT ![subGraph].alive = FALSE,
                                   ![subGraph].messageSource = stopSource(@)]
  /\ subGraph' = 0
  /\ gainParam' = IF masterGain # 0 /\ context # 0
                  THEN [gainParam EXCEPT ![masterGain] =
                          Schedule(@, Ev("set", INITIAL_VOLUME, 0))]
                  ELSE gainParam
  /\ stopTimeout' = IF IsSilent THEN stopTimeout ELSE 0

\* the teardown timer of the stop() of call s elapses
StopTimer(s) ==
  /\ kind \in ToneKinds
  /\ microtasks = <<>>
  /\ calls[s].pc = "stopTimer"
  /\ calls[s].t = 0
  /\ teardownNodes
  /\ CASE calls[s].op = "stop" ->
            /\ calls' = [calls EXCEPT ![s] = NoCall]
            /\ state' = "idle"
            /\ result' = Res("stop", "OK")
            /\ UNCHANGED <<masterGain, disposed>>
       [] calls[s].op \in PlayOps ->
            /\ calls' = [calls EXCEPT ![s] =
                  [@ EXCEPT !.pc = "settle", !.t = SettleDelay]]
            /\ state' = "idle"
            /\ UNCHANGED <<masterGain, disposed, result>>
       [] OTHER -> disposeAfterStop(s, "idle")
  /\ UNCHANGED <<context, ctxState, currentCarrierFreq, currentBeatFreq,
                 microtasks, opsLeft, constVars>>


SetVolume(percentage) ==
  /\ kind \in ToneKinds
  /\ opsLeft > 0
  /\ opsLeft' = opsLeft - 1
  /\ IF masterGain = 0 \/ (kind # "binaural" /\ context = 0)
     THEN /\ result' = Res("setVolume", "OK")
          /\ UNCHANGED gainParam
     ELSE IF kind = "binaural" /\ ~validateVolume(percentage)
     THEN /\ result' = Res("setVolume", "INVALID_VOLUME")
          /\ UNCHANGED gainParam
     ELSE /\ gainParam' = [gainParam EXCEPT ![masterGain] =
                SetThenRamp(@, Value(@), percentageToGain(percentage), VolumeRamp)]
          /\ result' = Res("setVolume", "OK")
  /\ UNCHANGED <<context, ctxState, masterGain, state, currentCarrierFreq,
                 currentBeatFreq, subGraph, graphs, stopTimeout, calls,
                 microtasks, disposed, constVars>>

\* an update that jumps to the new frequency
jumpFrequency(tl, target) == Schedule(tl, Ev("set", target, 0))

\* frequency.setValueAtTime(frequency.value, now);
\* frequency.linearRampToValueAtTime(target, now + rampTime)
rampFrequency(tl, target) == SetThenRamp(tl, Value(tl), target, FREQUENCY_RAMP_TIME)

UpdateFrequencies(carrier, beat) ==
  /\ kind \in ToneKinds
  /\ ~IsSilent
  /\ opsLeft > 0
  /\ opsLeft' = opsLeft - 1
  /\ IF state # "playing"
     THEN /\ result' = Res("updateFrequencies", "OK")
          /\ UNCHANGED <<graphs, currentCarrierFreq, currentBeatFreq>>
     ELSE IF ~ValidFrequencies(carrier, beat)
     THEN /\ result' = Res("updateFrequencies", "INVALID_FREQUENCY")
          /\ UNCHANGED <<graphs, currentCarrierFreq, currentBeatFreq>>
     ELSE IF context = 0 \/ subGraph = 0
     THEN /\ result' = Res("updateFrequencies", "OK")
          /\ UNCHANGED <<graphs, currentCarrierFreq, currentBeatFreq>>
     ELSE /\ graphs' = [graphs EXCEPT ![subGraph] =
                [@ EXCEPT
                   !.left = rampFrequency(@, LeftFrequency(carrier, beat)),
                   !.right = rampFrequency(@, RightFrequency(carrier, beat))]]
          /\ currentCarrierFreq' = carrier
          /\ currentBeatFreq' = beat
          /\ result' = Res("updateFrequencies", "OK")
  /\ UNCHANGED <<context, ctxState, masterGain, gainParam, state, subGraph,
                 stopTimeout, calls, microtasks, disposed, constVars>>

DisposeCall ==
  /\ kind \in ToneKinds
  /\ opsLeft > 0
  /\ opsLeft' = opsLeft - 1
  /\ HasFreeSlot
  /\ IF state # "playing"
     THEN /\ calls' = [calls EXCEPT ![FreeSlot] =
                Call("dispose", "stopped", 0, 0, 0, 0)]
          /\ microtasks' = Append(microtasks, FreeSlot)
          /\ UNCHANGED <<state, gainParam, stopTimeout>>
     ELSE stopBegin(FreeSlot, Call("dispose", "none", 0, 0, 0, 0), microtasks)
  /\ UNCHANGED <<context, ctxState, masterGain, currentCarrierFreq,
                 currentBeatFreq, subGraph, graphs, result, disposed, constVars>>

\* dispose() resumes after an "await this.stop()" that returned at once
DisposeAfterStop ==
  /\ kind \in ToneKinds
  /\ microtasks # <<>>
  /\ LET s == Head(microtasks) IN
       /\ calls[s].op = "dispose"
       /\ calls[s].pc = "stopped"
       /\ disposeAfterStop(s, state)
  /\ microtasks' = Tail(microtasks)
  /\ UNCHANGED <<context, ctxState, gainParam, currentCarrierFreq,
                 currentBeatFreq, subGraph, graphs, stopTimeout, opsLeft,
                 constVars>>

\* dispose() resumes after "await this.context.close()"
DisposeAfterClose(s) ==
  /\ kind \in ToneKinds
  /\ microtasks = <<>>
  /\ calls[s].op = "dispose"
  /\ calls[s].pc = "close"
  /\ calls' = [calls EXCEPT ![s] = NoCall]
  /\ IF ctxState[calls[s].ctx] = "closed"
     THEN \* close() of a closed context rejects and dispose() rethrows
          /\ result' = Res("dispose", "InvalidStateError")
          /\ UNCHANGED <<context, ctxState, masterGain, state, disposed>>
     ELSE /\ ctxState' = [ctxState EXCEPT ![calls[s].ctx] = "closed"]
          /\ context' = 0
          /\ masterGain' = IF IsSilent THEN masterGain ELSE 0
          /\ state' = "idle"
          /\ disposed' = TRUE
          /\ result' = Res("dispose", "OK")
  /\ UNCHANGED <<gainParam, currentCarrierFreq, currentBeatFreq, subGraph,
                 graphs, stopTimeout, microtasks, opsLeft, constVars>>

(***************************************************************************)
(* SupraliminalEngine                                                      *)
(***************************************************************************)
UsedVoices(vs) == {v \in 1..MaxVoices : vs[v].layer # 0}
Active(an) == {an[l] : l \in LayerIds} \ {0}
EnabledLayers == {l \in LayerIds : layers[l].present /\ layers[l].enabled}

\* initializeNodes(): the master gain is created only when there is none
supraInitializeNodes ==
  IF masterGain = 0
  THEN LET g == NextId(UsedGains, MaxGains)
       IN /\ masterGain' = g
          /\ gainParam' = [gainParam EXCEPT ![g] = <<Ev("set", GainOne, 0)>>]
  ELSE UNCHANGED <<masterGain, gainParam>>

supraCanInit ==
  /\ context = 0 => UsedCtx # 1..MaxCtx
  /\ masterGain = 0 => UsedGains # 1..MaxGains

supraInit ==
  IF externalContext /\ context # 0
  THEN UNCHANGED <<context, ctxState>> /\ supraInitializeNodes
  ELSE IF context # 0
  THEN UNCHANGED <<context, ctxState, masterGain, gainParam>>
  ELSE LET c == NextId(UsedCtx, MaxCtx)
       IN /\ context' = c
          /\ ctxState' = [ctxState EXCEPT ![c] = NewContextState]
          /\ supraInitializeNodes

\* applyFadeIn() on the gain of a voice that createLayerNodes() has just set
\* to 0.0001.  The target is 1.0 when gain.value === 0.0001; 0.0001 is not a
\* single-precision number, so the comparison holds only where the value is
\* read back unrounded.
applyFadeIn ==
  LET created == <<Ev("set", FLOOR, 0)>>
      targetVolume == IF exactValue THEN GainOne ELSE Value(created)
  IN Schedule(Schedule(created, Ev("set", FLOOR, 0)),
              Ev("exp", targetVolume, SUPRA_FADE_IN))

\* applyFadeOut(): cancel, hold the current value, ramp to the floor
applyFadeOut(tl) ==
  LET currentVolume == Value(tl)
  IN Schedule(Schedule(CancelScheduledValues(tl), Ev("set", currentVolume, 0)),
              Ev("exp", FLOOR, SUPRA_FADE_OUT))

\* a play() that activates every stored layer
ActivatesAnyLayer(l) == layers[l].present

\* play() skips a layer that is not enabled
Activates(l) == layers[l].present /\ layers[l].enabled

\* source.start(now + layer.startTimeOffset) throws a RangeError when the
\* start time is negative
StartFails(l) == layers[l].startTimeOffset < 0

\* the nodes of type t that a voice or the pool np holds
KnownNodes(vs, np, t) ==
  ({vs[v].nodes[t] : v \in 1..MaxVoices} \ {0})
    \cup {np[t][i] : i \in 1..Len(np[t])}

\* getOrCreateGainNode(), getOrCreatePannerNode(), getOrCreateFilterNode():
\* the node on top of the pool of type t, else a new node
getOrCreate(vs, np, t) ==
  IF np[t] # <<>>
  THEN [node |-> np[t][Len(np[t])],
        pool |-> [np EXCEPT ![t] = SubSeq(@, 1, Len(@) - 1)]]
  ELSE [node |-> NextId(KnownNodes(vs, np, t), MaxNodes), pool |-> np]

\* a returnNodeToPool() that pushes whatever the pool holds
returnNodeAlways(np, node, t) == [np EXCEPT ![t] = Append(@, node)]

\* returnNodeToPool(node, type): pushed while the pool is below its maximum
returnNodeToPool(np, node, t) ==
  IF Len(np[t]) < MAX_POOL_SIZE THEN [np EXCEPT ![t] = Append(@, node)] ELSE np

\* the pooled nodes of createLayerNodes(): the gain, the filter of a layer
\* that has one, the panner
createLayerNodes(l, vs, np) ==
  LET g == getOrCreate(vs, np, "gain")
      f == IF layers[l].filter THEN getOrCreate(vs, g.pool, "filter")
           ELSE [node |-> 0, pool |-> g.pool]
      n == getOrCreate(vs, f.pool, "panner")
  IN [nodes |-> [t \in NodeTypes |->
                   CASE t = "gain" -> g.node
                     [] t = "filter" -> f.node
                     [] OTHER -> n.node],
      pool |-> n.pool]

\* the forEach of play() over the layers from id l on
RECURSIVE buildLayers(_, _, _, _)
buildLayers(l, vs, an, np) ==
  IF l > MaxLayers THEN [voices |-> vs, activeNodes |-> an, nodePool |-> np]
  ELSE IF ~Activates(l) THEN buildLayers(l + 1, vs, an, np)
  ELSE LET v == NextId(UsedVoices(vs), MaxVoices)
           created == createLayerNodes(l, vs, np)
       IN IF StartFails(l)
          THEN \* the nodes are built and faded in, start() throws, the catch
               \* block logs: the voice never sounds and is not registered
               buildLayers(l + 1,
                 [vs EXCEPT ![v] = [alive |-> FALSE, layer |-> l,
                                    gain |-> applyFadeIn,
                                    filter |-> layers[l].filter,
                                    nodes |-> created.nodes]],
                 an, created.pool)
          ELSE buildLayers(l + 1,
                 [vs EXCEPT ![v] = [alive |-> TRUE, layer |-> l,
                                    gain |-> applyFadeIn,
                                    filter |-> layers[l].filter,
                                    nodes |-> created.nodes]],
                 [an EXCEPT ![l] = v], created.pool)

CanBuild(vs) ==
  Cardinality(UsedVoices(vs)) + Cardinality(EnabledLayers) <= MaxVoices

\* play() from the check of the context on; vs and an are the voices and the
\* active map at that point, playing is isPlaying at that point
supraBuild(s, vs, an, np, playing) ==
  /\ calls' = [calls EXCEPT ![s] = NoCall]
  /\ IF context = 0 \/ masterGain = 0
     THEN /\ result' = Res("play", "CONTEXT_NOT_INITIALIZED")
          /\ voices' = vs
          /\ activeNodes' = an
          /\ nodePool' = np
          /\ isPlaying' = playing
     ELSE /\ CanBuild(vs)
          /\ voices' = buildLayers(1, vs, an, np).voices
          /\ activeNodes' = buildLayers(1, vs, an, np).activeNodes
          /\ nodePool' = buildLayers(1, vs, an, np).nodePool
          /\ isPlaying' = TRUE
          /\ result' = Res("play", "OK")

\* stop() up to its wait, entered with isPlaying and a context: the voices
\* of an and ls are faded and call s waits for the teardown
Fading(an, ls) == {l \in LayerIds : an[l] # 0 /\ ls[l].present}

supraStopBegin(s, c, vs, an, ls) ==
  LET maxFadeOutDuration == IF Fading(an, ls) = {} THEN 0 ELSE SUPRA_FADE_OUT
  IN /\ voices' = [v \in 1..MaxVoices |->
           IF \E l \in Fading(an, ls) : an[l] = v
           THEN [vs[v] EXCEPT !.gain = applyFadeOut(@)] ELSE vs[v]]
     /\ calls' = [calls EXCEPT ![s] =
           [c EXCEPT !.pc = "stopTimer",
                     !.t = maxFadeOutDuration + SUPRA_STOP_BUFFER]]

\* the end of stop(): every active voice is stopped, gives up its pooled
\* nodes, and the map is cleared
TornDown(vs, an) ==
  [v \in 1..MaxVoices |->
     IF v \in Active(an)
     THEN [vs[v] EXCEPT !.alive = FALSE, !.nodes = NoNodes]
     ELSE vs[v]]

\* stopLayerNodes(): the gain, the panner and the filter of a voice go back
\* to their pools in this order
returnNodes(nodes, np) ==
  LET g == returnNodeToPool(np, nodes["gain"], "gain")
      n == returnNodeToPool(g, nodes["panner"], "panner")
  IN IF nodes["filter"] # 0 THEN returnNodeToPool(n, nodes["filter"], "filter")
     ELSE n

\* the nodes of the voices of an, from layer id l on, returned to np
RECURSIVE Released(_, _, _, _)
Released(l, vs, an, np) ==
  IF l > MaxLayers THEN np
  ELSE IF an[l] = 0 THEN Released(l + 1, vs, an, np)
  ELSE Released(l + 1, vs, an, returnNodes(vs[an[l]].nodes, np))

\* a teardown that leaves the entries of activeNodes in place
ClearSkipped == activeNodes

\* this.activeNodes.clear()
NoneActive == [l \in LayerIds |-> 0]

\* dispose() after its stop()
supraDisposeRest(s) ==
  /\ layers' = [l \in LayerIds |-> NoLayer]
  /\ masterGain' = 0
  /\ IF context # 0 /\ ~externalContext
     THEN /\ calls' = [calls EXCEPT ![s] =
                Call("dispose", "close", 0, 0, 0, context)]
          /\ UNCHANGED <<disposed, result>>
     ELSE /\ calls' = [calls EXCEPT ![s] = NoCall]
          /\ disposed' = TRUE
          /\ result' = Res("dispose", "OK")

toneVars == <<state, currentCarrierFreq, currentBeatFreq, subGraph, graphs,
              stopTimeout>>

\* play(): init(), then the first await
SupraPlayCall ==
  /\ kind = "supraliminal"
  /\ opsLeft > 0
  /\ opsLeft' = opsLeft - 1
  /\ HasFreeSlot
  /\ supraCanInit
  /\ supraInit
  /\ calls' = [calls EXCEPT ![FreeSlot] = Call("play", "init", 0, 0, 0, 0)]
  /\ microtasks' = Append(microtasks, FreeSlot)
  /\ UNCHANGED <<toneVars, supraVars, result, disposed, frameVars, mixerVars>>

\* play() resumes after "await this.init()": with isPlaying it enters stop(),
\* otherwise it builds at once
SupraPlayAfterInit ==
  /\ kind = "supraliminal"
  /\ microtasks # <<>>
  /\ LET s == Head(microtasks) IN
       /\ calls[s].op = "play"
       /\ calls[s].pc = "init"
       /\ IF isPlaying /\ context # 0
          THEN /\ supraStopBegin(s, calls[s], voices, activeNodes, layers)
               /\ UNCHANGED <<activeNodes, nodePool, isPlaying, result>>
          ELSE supraBuild(s, voices, activeNodes, nodePool, isPlaying)
  /\ microtasks' = Tail(microtasks)
  /\ UNCHANGED <<context, ctxState, masterGain, gainParam, toneVars, layers,
                 disposed, opsLeft, restVars, mixerVars>>

SupraStopCall ==
  /\ kind = "supraliminal"
  /\ opsLeft > 0
  /\ opsLeft' = opsLeft - 1
  /\ IF ~isPlaying \/ context = 0
     THEN /\ result' = Res("stop", "OK")
          /\ UNCHANGED <<voices, calls>>
     ELSE /\ HasFreeSlot
          /\ supraStopBegin(FreeSlot, Call("stop", "none", 0, 0, 0, 0),
                            voices, activeNodes, layers)
          /\ UNCHANGED result
  /\ UNCHANGED <<context, ctxState, masterGain, gainParam, toneVars, layers,
                 activeNodes, isPlaying, microtasks, disposed, frameVars, mixerVars>>

\* the wait of the stop() of call s is over: the teardown, and what the
\* caller of that stop() does next without yielding to another task
SupraStopTimer(s) ==
  /\ kind = "supraliminal"
  /\ microtasks = <<>>
  /\ calls[s].pc = "stopTimer"
  /\ calls[s].t = 0
  /\ CASE calls[s].op = "stop" ->
            /\ voices' = TornDown(voices, activeNodes)
            /\ nodePool' = Released(1, voices, activeNodes, nodePool)
            /\ activeNodes' = NoneActive
            /\ isPlaying' = FALSE
            /\ calls' = [calls EXCEPT ![s] = NoCall]
            /\ result' = Res("stop", "OK")
            /\ UNCHANGED <<layers, masterGain, disposed>>
       [] calls[s].op = "play" ->
            /\ supraBuild(s, TornDown(voices, activeNodes), NoneActive,
                          Released(1, voices, activeNodes, nodePool), FALSE)
            /\ UNCHANGED <<layers, masterGain, disposed>>
       [] calls[s].op = "dispose" ->
            /\ voices' = TornDown(voices, activeNodes)
            /\ nodePool' = EmptyPool
            /\ activeNodes' = NoneActive
            /\ isPlaying' = FALSE
            /\ supraDisposeRest(s)
       [] OTHER -> \* restart(): await this.delay(100)
            /\ voices' = TornDown(voices, activeNodes)
            /\ nodePool' = Released(1, voices, activeNodes, nodePool)
            /\ activeNodes' = NoneActive
            /\ isPlaying' = FALSE
            /\ calls' = [calls EXCEPT ![s] =
                  [@ EXCEPT !.pc = "settle", !.t = RESTART_DELAY]]
            /\ UNCHANGED <<layers, masterGain, disposed, result>>
  /\ UNCHANGED <<context, ctxState, gainParam, toneVars, microtasks, opsLeft,
                 restVars, mixerVars>>

\* restart() resumes after its delay and calls play()
SupraRestartAfterSettle(s) ==
  /\ kind = "supraliminal"
  /\ microtasks = <<>>
  /\ calls[s].pc = "settle"
  /\ calls[s].t = 0
  /\ supraCanInit
  /\ supraInit
  /\ calls' = [calls EXCEPT ![s] = Call("play", "init", 0, 0, 0, 0)]
  /\ microtasks' = <<s>>
  /\ UNCHANGED <<toneVars, supraVars, result, disposed, opsLeft, frameVars, mixerVars>>

\* options.x ?? d
Coalesce(x, d) == IF x = <<>> THEN d ELSE x[1]

\* an addLayer() that stores the defaults whatever the options say
newLayerFromDefaults(options) ==
  [present |-> TRUE, playbackRate |-> DEFAULT_PLAYBACK_RATE, pan |-> DEFAULT_PAN,
   volume |-> DEFAULT_VOLUME, startTimeOffset |-> DEFAULT_START_OFFSET,
   enabled |-> TRUE, filter |-> FALSE]

\* the layer that addLayer() and addLayerFromURL() store
newLayer(options) ==
  [present |-> TRUE,
   playbackRate |-> Coalesce(options.playbackRate, DEFAULT_PLAYBACK_RATE),
   pan |-> Coalesce(options.pan, DEFAULT_PAN),
   volume |-> Coalesce(options.volume, DEFAULT_VOLUME),
   startTimeOffset |-> Coalesce(options.startTimeOffset, DEFAULT_START_OFFSET),
   enabled |-> Coalesce(options.enabled, TRUE),
   filter |-> Coalesce(options.filter, FALSE)]

\* addLayer(file, options): init(), then the first await
SupraAddLayerCall(options) ==
  /\ kind = "supraliminal"
  /\ opsLeft > 0
  /\ opsLeft' = opsLeft - 1
  /\ HasFreeSlot
  /\ Cardinality({l \in LayerIds : layers[l].present})
       + Cardinality({s \in Slots : calls[s].op = "addLayer"}) < MaxLayers
  /\ supraCanInit
  /\ supraInit
  /\ calls' = [calls EXCEPT ![FreeSlot] =
        [Call("addLayer", "init", 0, 0, 0, 0) EXCEPT !.opts = options]]
  /\ microtasks' = Append(microtasks, FreeSlot)
  /\ UNCHANGED <<toneVars, supraVars, result, disposed, frameVars, mixerVars>>

\* addLayerFromURL(url, options): init(), then the first await
SupraAddLayerFromURLCall(options) ==
  /\ kind = "supraliminal"
  /\ opsLeft > 0
  /\ opsLeft' = opsLeft - 1
  /\ HasFreeSlot
  /\ Cardinality({l \in LayerIds : layers[l].present})
       + Cardinality({s \in Slots : calls[s].op = "addLayer"}) < MaxLayers
  /\ supraCanInit
  /\ supraInit
  /\ calls' = [calls EXCEPT ![FreeSlot] =
        [Call("addLayer", "init", 0, 0, 0, 0) EXCEPT !.opts = options,
                                                     !.url = TRUE]]
  /\ microtasks' = Append(microtasks, FreeSlot)
  /\ UNCHANGED <<toneVars, supraVars, result, disposed, frameVars, mixerVars>>

\* the name under which call c returns or is rejected
AddLayerOp(c) == IF c.url THEN "addLayerFromURL" ELSE "addLayer"

\* the errors that fetch() and a response that is not ok raise
FetchErrors == {"TypeError", "HTTP error"}

\* addLayer() resumes after init() and starts reading and decoding the file
SupraAddLayerAfterInit ==
  /\ kind = "supraliminal"
  /\ microtasks # <<>>
  /\ LET s == Head(microtasks) IN
       /\ calls[s].op = "addLayer"
       /\ calls[s].pc = "init"
       /\ IF context = 0
          THEN /\ calls' = [calls EXCEPT ![s] = NoCall]
               /\ result' = Res(AddLayerOp(calls[s]), "CONTEXT_NOT_INITIALIZED")
          ELSE /\ calls' = [calls EXCEPT ![s] =
                     [@ EXCEPT !.pc = IF calls[s].url THEN "fetch" ELSE "decode"]]
               /\ UNCHANGED result
  /\ microtasks' = Tail(microtasks)
  /\ UNCHANGED <<context, ctxState, masterGain, gainParam, toneVars, supraVars,
                 disposed, opsLeft, frameVars, mixerVars>>

\* addLayerFromURL(): fetch() resolves with a response that is ok
SupraFetched(s) ==
  /\ kind = "supraliminal"
  /\ microtasks = <<>>
  /\ calls[s].op = "addLayer"
  /\ calls[s].pc = "fetch"
  /\ calls' = [calls EXCEPT ![s] = [@ EXCEPT !.pc = "decode"]]
  /\ UNCHANGED <<context, ctxState, masterGain, gainParam, toneVars, supraVars,
                 microtasks, result, disposed, opsLeft, frameVars, mixerVars>>

\* addLayerFromURL(): fetch() rejects, or the response is not ok
SupraFetchFailed(s) ==
  /\ kind = "supraliminal"
  /\ microtasks = <<>>
  /\ calls[s].op = "addLayer"
  /\ calls[s].pc = "fetch"
  /\ \E cause \in FetchErrors :
       result' = Rejected("addLayerFromURL", "FILE_LOAD_ERROR", cause)
  /\ calls' = [calls EXCEPT ![s] = NoCall]
  /\ UNCHANGED <<context, ctxState, masterGain, gainParam, toneVars, supraVars,
                 microtasks, disposed, opsLeft, frameVars, mixerVars>>

\* arrayBuffer() or decodeAudioData() rejects
SupraAddLayerFailed(s) ==
  /\ kind = "supraliminal"
  /\ microtasks = <<>>
  /\ calls[s].op = "addLayer"
  /\ calls[s].pc = "decode"
  /\ result' = Rejected(AddLayerOp(calls[s]), "FILE_LOAD_ERROR", "EncodingError")
  /\ calls' = [calls EXCEPT ![s] = NoCall]
  /\ UNCHANGED <<context, ctxState, masterGain, gainParam, toneVars, supraVars,
                 microtasks, disposed, opsLeft, frameVars, mixerVars>>

\* the file is decoded: the layer is stored with the options of the call and
\* the defaults, and a playing engine restarts
SupraAddLayerDecoded(s) ==
  /\ kind = "supraliminal"
  /\ microtasks = <<>>
  /\ calls[s].op = "addLayer"
  /\ calls[s].pc = "decode"
  /\ LET id == NextId({l \in LayerIds : layers[l].present}, MaxLayers)
         newLayers == [layers EXCEPT ![id] = newLayer(calls[s].opts)]
     IN /\ layers' = newLayers
        /\ IF isPlaying /\ context # 0
           THEN /\ supraStopBegin(s, calls[s], voices, activeNodes, newLayers)
                /\ UNCHANGED result
           ELSE /\ calls' = [calls EXCEPT ![s] = NoCall]
                /\ result' = Res(AddLayerOp(calls[s]), "OK")
                /\ UNCHANGED voices
  /\ UNCHANGED <<context, ctxState, masterGain, gainParam, toneVars,
                 activeNodes, isPlaying, microtasks, disposed, opsLeft,
                 frameVars, mixerVars>>

\* removeLayer(id): the voice of the layer is stopped at once, the layer is
\* deleted and a playing engine starts a restart that nobody awaits
SupraRemoveLayer(id) ==
  /\ kind = "supraliminal"
  /\ opsLeft > 0
  /\ opsLeft' = opsLeft - 1
  /\ IF ~layers[id].present
     THEN /\ result' = Res("removeLayer", "OK")
          /\ UNCHANGED <<layers, activeNodes, voices, nodePool, calls>>
     ELSE LET removed == [NoneActive EXCEPT ![id] = activeNodes[id]]
              stopped == TornDown(voices, removed)
              remaining == [activeNodes EXCEPT ![id] = 0]
              newLayers == [layers EXCEPT ![id] = NoLayer]
          IN /\ layers' = newLayers
             /\ activeNodes' = remaining
             /\ nodePool' = Released(1, voices, removed, nodePool)
             /\ result' = Res("removeLayer", "OK")
             /\ IF isPlaying /\ context # 0
                THEN /\ HasFreeSlot
                     /\ supraStopBegin(FreeSlot, Call("restart", "none", 0, 0, 0, 0),
                                       stopped, remaining, newLayers)
                ELSE /\ voices' = stopped
                     /\ UNCHANGED calls
  /\ UNCHANGED <<context, ctxState, masterGain, gainParam, toneVars, isPlaying,
                 microtasks, disposed, restVars, mixerVars>>

\* an updateLayer() that stops the voice it updates
stoppedVoice(voice, volume) == [voice EXCEPT !.alive = FALSE]

\* updateLayer(): the ramp of the gain of the sounding voice to the volume
rampedVoice(voice, volume) ==
  [voice EXCEPT !.gain = Schedule(PinAtCurrent(@),
                                  Ev("exp", Max(FLOOR, volume), LAYER_RAMP))]

\* updateLayer(id, {volume}): stored, and ramped on the sounding voice
SupraUpdateLayer(id, volume) ==
  /\ kind = "supraliminal"
  /\ opsLeft > 0
  /\ opsLeft' = opsLeft - 1
  /\ result' = Res("updateLayer", "OK")
  /\ IF ~layers[id].present \/ context = 0
     THEN UNCHANGED <<layers, voices>>
     ELSE /\ layers' = [layers EXCEPT ![id].volume = volume]
          /\ IF activeNodes[id] = 0
             THEN UNCHANGED voices
             ELSE voices' = [voices EXCEPT ![activeNodes[id]] =
                                rampedVoice(@, volume)]
  /\ UNCHANGED <<context, ctxState, masterGain, gainParam, toneVars,
                 activeNodes, isPlaying, calls, microtasks, disposed, frameVars, mixerVars>>

\* updateLayer(id, {filter}): stored; the filter node of a sounding voice
\* that has one is retuned, a voice without one keeps its nodes
SupraUpdateLayerFilter(id) ==
  /\ kind = "supraliminal"
  /\ opsLeft > 0
  /\ opsLeft' = opsLeft - 1
  /\ result' = Res("updateLayer", "OK")
  /\ IF ~layers[id].present \/ context = 0
     THEN UNCHANGED layers
     ELSE layers' = [layers EXCEPT ![id].filter = TRUE]
  /\ UNCHANGED <<context, ctxState, masterGain, gainParam, toneVars, voices,
                 activeNodes, isPlaying, calls, microtasks, disposed, frameVars, mixerVars>>

\* updateLayer(id, {enabled}): stored; no node of a sounding voice reads it
SupraUpdateLayerEnabled(id, enabled) ==
  /\ kind = "supraliminal"
  /\ opsLeft > 0
  /\ opsLeft' = opsLeft - 1
  /\ result' = Res("updateLayer", "OK")
  /\ IF ~layers[id].present \/ context = 0
     THEN UNCHANGED layers
     ELSE layers' = [layers EXCEPT ![id].enabled = enabled]
  /\ UNCHANGED <<context, ctxState, masterGain, gainParam, toneVars, voices,
                 activeNodes, isPlaying, calls, microtasks, disposed, frameVars, mixerVars>>

\* dispose(): its stop(), up to the first await
SupraDisposeCall ==
  /\ kind = "supraliminal"
  /\ opsLeft > 0
  /\ opsLeft' = opsLeft - 1
  /\ HasFreeSlot
  /\ IF ~isPlaying \/ context = 0
     THEN /\ calls' = [calls EXCEPT ![FreeSlot] =
                Call("dispose", "stopped", 0, 0, 0, 0)]
          /\ microtasks' = Append(microtasks, FreeSlot)
          /\ UNCHANGED voices
     ELSE /\ supraStopBegin(FreeSlot, Call("dispose", "none", 0, 0, 0, 0),
                            voices, activeNodes, layers)
          /\ UNCHANGED microtasks
  /\ UNCHANGED <<context, ctxState, masterGain, gainParam, toneVars, layers,
                 activeNodes, isPlaying, result, disposed, frameVars, mixerVars>>

\* dispose() resumes after a stop() that returned at once
SupraDisposeAfterStop ==
  /\ kind = "supraliminal"
  /\ microtasks # <<>>
  /\ LET s == Head(microtasks) IN
       /\ calls[s].op = "dispose"
       /\ calls[s].pc = "stopped"
       /\ supraDisposeRest(s)
  /\ nodePool' = EmptyPool
  /\ microtasks' = Tail(microtasks)
  /\ UNCHANGED <<context, ctxState, gainParam, toneVars, activeNodes, voices,
                 isPlaying, opsLeft, restVars, mixerVars>>

\* dispose() resumes after "await this.context.close()"
SupraDisposeAfterClose(s) ==
  /\ kind = "supraliminal"
  /\ microtasks = <<>>
  /\ calls[s].op = "dispose"
  /\ calls[s].pc = "close"
  /\ calls' = [calls EXCEPT ![s] = NoCall]
  /\ IF ctxState[calls[s].ctx] = "closed"
     THEN /\ result' = Res("dispose", "InvalidStateError")
          /\ UNCHANGED <<context, ctxState, disposed>>
     ELSE /\ ctxState' = [ctxState EXCEPT ![calls[s].ctx] = "closed"]
          /\ context' = 0
          /\ disposed' = TRUE
          /\ result' = Res("dispose", "OK")
  /\ UNCHANGED <<masterGain, gainParam, toneVars, supraVars, microtasks,
                 opsLeft, frameVars, mixerVars>>

(***************************************************************************)
(* AudioMixer                                                              *)
(***************************************************************************)
UsedSends == {n \in 1..MaxSends : sendGains[n].gain # <<>>}

engineFrame == <<masterGain, toneVars, supraVars, frameVars>>

EventTypes == {"click", "touchstart", "keydown"}

\* setupAutoResume(): one listener per kind of interaction
setupAutoResume == EventTypes

\* init(): the context is created when there is none, a context that is
\* suspended gets the auto-resume listeners, the processing chain is built;
\* a later init() only resumes a context that is suspended
MixerInit ==
  /\ kind \in MixerKinds
  /\ opsLeft > 0
  /\ opsLeft' = opsLeft - 1
  /\ IF isInitialized /\ context # 0
     THEN /\ IF ctxState[context] = "suspended"
             THEN \* await this.resumeContext()
                  /\ HasFreeSlot
                  /\ calls' = [calls EXCEPT ![FreeSlot] =
                        Call("init", "resume", 0, 0, 0, context)]
                  /\ UNCHANGED result
             ELSE /\ result' = Res("init", "OK")
                  /\ UNCHANGED calls
          /\ UNCHANGED <<context, ctxState, mixerMasterGain, gainParam,
                         inputNode, isInitialized, listeners>>
     ELSE /\ UsedGains # 1..MaxGains
          /\ context = 0 => UsedCtx # 1..MaxCtx
          /\ LET c == IF context = 0 THEN NextId(UsedCtx, MaxCtx) ELSE context
                 g == NextId(UsedGains, MaxGains)
                 st == IF context = 0 THEN NewContextState ELSE ctxState[c]
             IN /\ context' = c
                /\ ctxState' = [ctxState EXCEPT ![c] = st]
                /\ listeners' = IF st = "suspended"
                                THEN setupAutoResume ELSE listeners
                /\ mixerMasterGain' = g
                /\ gainParam' = [gainParam EXCEPT ![g] =
                                   <<Ev("set", masterVolume, 0)>>]
          /\ inputNode' = TRUE
          /\ isInitialized' = TRUE
          /\ result' = Res("init", "OK")
          /\ UNCHANGED calls
  /\ UNCHANGED <<connectedEngines, sendGains, microtasks, disposed,
                 masterVolume, masterGain, toneVars, supraVars, fixedVars, nodePool,
                 messageVars, droppedFrames>>

\* resumeContext(): context.resume() is awaited when the context is suspended
MixerResumeContext ==
  /\ kind \in MixerKinds
  /\ opsLeft > 0
  /\ opsLeft' = opsLeft - 1
  /\ IF context = 0
     THEN /\ result' = Res("resumeContext", "CONTEXT_NOT_INITIALIZED")
          /\ UNCHANGED calls
     ELSE IF ctxState[context] = "suspended"
     THEN /\ HasFreeSlot
          /\ calls' = [calls EXCEPT ![FreeSlot] =
                Call("resumeContext", "resume", 0, 0, 0, context)]
          /\ UNCHANGED result
     ELSE /\ result' = Res("resumeContext", "OK")
          /\ UNCHANGED calls
  /\ UNCHANGED <<context, ctxState, gainParam, microtasks, disposed, mixerVars,
                 engineFrame>>

\* a click, a touchstart or a keydown on the document: a listener that is
\* registered runs once and is gone; resumeOnInteraction resumes a context
\* that is suspended and does nothing otherwise
Interaction(e) ==
  /\ kind \in MixerKinds
  /\ e \in listeners
  /\ listeners' = listeners \ {e}
  /\ IF context # 0 /\ ctxState[context] = "suspended"
     THEN /\ HasFreeSlot
          /\ calls' = [calls EXCEPT ![FreeSlot] =
                Call("autoResume", "resume", 0, 0, 0, context)]
     ELSE UNCHANGED calls
  /\ UNCHANGED <<context, ctxState, gainParam, microtasks, result, disposed,
                 opsLeft, mixerVars, masterGain, toneVars, supraVars, fixedVars, nodePool,
                 messageVars, droppedFrames>>

\* a resumeOnInteraction that leaves its listeners registered
keepListeners(ls) == ls

\* the three removeEventListener() calls of resumeOnInteraction
removeListeners(ls) == {}

\* context.resume() of call s settles: it resolves unless the context is
\* closed; resumeOnInteraction then removes its listeners
ResumeSettled(s) ==
  /\ kind \in MixerKinds
  /\ microtasks = <<>>
  /\ calls[s].pc = "resume"
  /\ calls' = [calls EXCEPT ![s] = NoCall]
  /\ IF ctxState[calls[s].ctx] = "closed"
     THEN /\ result' = Res(calls[s].op, "PLAYBACK_ERROR")
          /\ UNCHANGED <<ctxState, listeners>>
     ELSE /\ ctxState' = [ctxState EXCEPT ![calls[s].ctx] = "running"]
          /\ result' = Res(calls[s].op, "OK")
          /\ listeners' = IF calls[s].op = "autoResume"
                          THEN removeListeners(listeners) ELSE listeners
  /\ UNCHANGED <<context, gainParam, microtasks, disposed, opsLeft, mixerVars,
                 masterGain, toneVars, supraVars, fixedVars, nodePool, messageVars,
                 droppedFrames>>

\* the page or the host suspends the context again
ContextSuspended ==
  /\ kind \in MixerKinds
  /\ opsLeft > 0
  /\ opsLeft' = opsLeft - 1
  /\ context # 0
  /\ ctxState[context] = "running"
  /\ ctxState' = [ctxState EXCEPT ![context] = "suspended"]
  /\ UNCHANGED <<context, gainParam, calls, microtasks, result, disposed,
                 mixerVars, engineFrame>>

\* a connectEngine() that never finds its id in the registry
NeverAlreadyConnected(id) == FALSE

\* this.connectedEngines.has(engineId)
AlreadyConnected(id) == connectedEngines[id].present

\* connectEngine(engine, {id, volume}): a new send gain at the floor, ramped
\* to the volume.  The output node of the engine is wired into the send gain
\* once, here.  exponentialRampToValueAtTime(0) throws, after the node is
\* wired and before the entry is stored.  A call with a registered id only
\* logs that the engine is already connected.
MixerConnectEngine(id, volume) ==
  /\ kind \in MixerKinds
  /\ opsLeft > 0
  /\ opsLeft' = opsLeft - 1
  /\ IF ~inputNode \/ context = 0
     THEN /\ result' = Res("connectEngine", "OK")
          /\ UNCHANGED <<connectedEngines, sendGains>>
     ELSE IF AlreadyConnected(id)
     THEN /\ result' = Res("connectEngine", "ALREADY_CONNECTED")
          /\ UNCHANGED <<connectedEngines, sendGains>>
     ELSE IF getOutputNode = 0
     THEN \* the engine has no output node yet: the new gain node is dropped
          /\ result' = Res("connectEngine", "PLAYBACK_ERROR")
          /\ UNCHANGED <<connectedEngines, sendGains>>
     ELSE /\ UsedSends # 1..MaxSends
          /\ LET n == NextId(UsedSends, MaxSends)
                 created == Schedule(<<Ev("set", FLOOR, 0)>>, Ev("set", FLOOR, 0))
             IN IF volume <= 0
                THEN /\ sendGains' = [sendGains EXCEPT ![n] =
                           [connected |-> TRUE, gain |-> created,
                            input |-> getOutputNode]]
                     /\ result' = Res("connectEngine", "PLAYBACK_ERROR")
                     /\ UNCHANGED connectedEngines
                ELSE /\ sendGains' = [sendGains EXCEPT ![n] =
                           [connected |-> TRUE,
                            gain |-> Schedule(created,
                                       Ev("exp", volume, CONNECT_FADE)),
                            input |-> getOutputNode]]
                     /\ connectedEngines' = [connectedEngines EXCEPT ![id] =
                           [present |-> TRUE, node |-> n, volume |-> volume,
                            muted |-> FALSE, solo |-> FALSE]]
                     /\ result' = Res("connectEngine", "OK")
  /\ UNCHANGED <<context, ctxState, mixerMasterGain, gainParam, inputNode,
                 isInitialized, calls, microtasks, disposed, masterVolume, engineFrame>>

\* disconnectEngine(id, fade) up to its wait, entered with a registered id
\* and a context: call s waits for the fade of the entry's send gain
mixerFadeOut(s, c, id, fade) ==
  /\ sendGains' = [sendGains EXCEPT ![connectedEngines[id].node].gain =
        Schedule(Schedule(CancelScheduledValues(@), Ev("set", Value(@), 0)),
                 Ev("exp", FLOOR, fade))]
  /\ calls' = [calls EXCEPT ![s] =
        [c EXCEPT !.pc = "fadeWait", !.t = fade + DISCONNECT_BUFFER,
                  !.node = connectedEngines[id].node]]

MixerDisconnectEngine(id) ==
  /\ kind \in MixerKinds
  /\ opsLeft > 0
  /\ opsLeft' = opsLeft - 1
  /\ IF ~connectedEngines[id].present \/ context = 0
     THEN /\ result' = Res("disconnectEngine", "OK")
          /\ UNCHANGED <<sendGains, calls>>
     ELSE /\ HasFreeSlot
          /\ mixerFadeOut(FreeSlot,
                [Call("disconnectEngine", "none", 0, 0, 0, 0) EXCEPT !.todo = <<id>>],
                id, DISCONNECT_FADE)
          /\ UNCHANGED result
  /\ UNCHANGED <<context, ctxState, mixerMasterGain, gainParam, inputNode,
                 isInitialized, connectedEngines, microtasks, disposed,
                 masterVolume, engineFrame>>

\* the ids of todo from the first one that disconnectEngine() would wait for
RECURSIVE DropAbsent(_, _)
DropAbsent(todo, reg) ==
  IF todo = <<>> THEN <<>>
  ELSE IF reg[Head(todo)].present /\ context # 0 THEN todo
  ELSE DropAbsent(Tail(todo), reg)

\* a dispose() that closes whatever context the mixer holds
mixerDisposeRestClosingAny(s) ==
  /\ inputNode' = FALSE
  /\ mixerMasterGain' = 0
  /\ IF context # 0
     THEN /\ calls' = [calls EXCEPT ![s] =
                Call("dispose", "close", 0, 0, 0, context)]
          /\ UNCHANGED <<isInitialized, disposed, result>>
     ELSE /\ calls' = [calls EXCEPT ![s] = NoCall]
          /\ isInitialized' = FALSE
          /\ disposed' = TRUE
          /\ result' = Res("dispose", "OK")

\* dispose() after disconnectAllEngines()
mixerDisposeRest(s) ==
  /\ inputNode' = FALSE
  /\ mixerMasterGain' = 0
  /\ IF context # 0 /\ ~externalContext
     THEN /\ calls' = [calls EXCEPT ![s] =
                Call("dispose", "close", 0, 0, 0, context)]
          /\ UNCHANGED <<isInitialized, disposed, result>>
     ELSE /\ calls' = [calls EXCEPT ![s] = NoCall]
          /\ isInitialized' = FALSE
          /\ disposed' = TRUE
          /\ result' = Res("dispose", "OK")

\* the wait of a disconnectEngine() is over: the send gain is disconnected
\* and the id deleted; inside dispose() the loop goes on to the next id
MixerDisconnectTimer(s) ==
  /\ kind \in MixerKinds
  /\ microtasks = <<>>
  /\ calls[s].pc = "fadeWait"
  /\ calls[s].t = 0
  /\ LET id == Head(calls[s].todo)
         reg == [connectedEngines EXCEPT ![id] = NoEngine]
         rest == DropAbsent(Tail(calls[s].todo), reg)
         cut == [sendGains EXCEPT ![calls[s].node].connected = FALSE]
     IN /\ connectedEngines' = reg
        /\ IF calls[s].op = "disconnectEngine"
           THEN /\ sendGains' = cut
                /\ calls' = [calls EXCEPT ![s] = NoCall]
                /\ result' = Res("disconnectEngine", "OK")
                /\ UNCHANGED <<inputNode, mixerMasterGain, isInitialized, disposed>>
           ELSE IF rest # <<>>
           THEN /\ sendGains' = [cut EXCEPT ![reg[Head(rest)].node].gain =
                      Schedule(Schedule(CancelScheduledValues(@),
                                        Ev("set", Value(@), 0)),
                               Ev("exp", FLOOR, DISPOSE_FADE))]
                /\ calls' = [calls EXCEPT ![s] =
                      [@ EXCEPT !.t = DISPOSE_FADE + DISCONNECT_BUFFER,
                                !.node = reg[Head(rest)].node, !.todo = rest]]
                /\ UNCHANGED <<inputNode, mixerMasterGain, isInitialized, disposed,
                               result>>
           ELSE /\ sendGains' = cut
                /\ mixerDisposeRest(s)
  /\ UNCHANGED <<context, ctxState, gainParam, microtasks, opsLeft, masterVolume, engineFrame>>

\* dispose(): disconnectAllEngines(0.05) up to its first wait
MixerDisposeCall ==
  /\ kind \in MixerKinds
  /\ opsLeft > 0
  /\ opsLeft' = opsLeft - 1
  /\ HasFreeSlot
  /\ LET engineIds == [e \in EngineIds |-> e]
         todo == DropAbsent(SelectSeq(engineIds,
                                      LAMBDA e : connectedEngines[e].present),
                            connectedEngines)
     IN IF todo = <<>>
        THEN /\ calls' = [calls EXCEPT ![FreeSlot] =
                   Call("dispose", "stopped", 0, 0, 0, 0)]
             /\ microtasks' = Append(microtasks, FreeSlot)
             /\ UNCHANGED sendGains
        ELSE /\ mixerFadeOut(FreeSlot,
                   [Call("dispose", "none", 0, 0, 0, 0) EXCEPT !.todo = todo],
                   Head(todo), DISPOSE_FADE)
             /\ UNCHANGED microtasks
  /\ UNCHANGED <<context, ctxState, mixerMasterGain, gainParam, inputNode,
                 isInitialized, connectedEngines, result, disposed, masterVolume, engineFrame>>

\* dispose() resumes after a disconnectAllEngines() that had nothing to wait for
MixerDisposeAfterDisconnect ==
  /\ kind \in MixerKinds
  /\ microtasks # <<>>
  /\ LET s == Head(microtasks) IN
       /\ calls[s].op = "dispose"
       /\ calls[s].pc = "stopped"
       /\ mixerDisposeRest(s)
  /\ microtasks' = Tail(microtasks)
  /\ UNCHANGED <<context, ctxState, gainParam, connectedEngines, sendGains,
                 opsLeft, masterVolume, engineFrame>>

\* dispose() resumes after "await this.context.close()"
MixerDisposeAfterClose(s) ==
  /\ kind \in MixerKinds
  /\ microtasks = <<>>
  /\ calls[s].op = "dispose"
  /\ calls[s].pc = "close"
  /\ calls' = [calls EXCEPT ![s] = NoCall]
  /\ IF ctxState[calls[s].ctx] = "closed"
     THEN /\ result' = Res("dispose", "InvalidStateError")
          /\ UNCHANGED <<context, ctxState, isInitialized, disposed>>
     ELSE /\ ctxState' = [ctxState EXCEPT ![calls[s].ctx] = "closed"]
          /\ context' = 0
          /\ isInitialized' = FALSE
          /\ disposed' = TRUE
          /\ result' = Res("dispose", "OK")
  /\ UNCHANGED <<mixerMasterGain, gainParam, inputNode, connectedEngines, sendGains,
                 microtasks, opsLeft, masterVolume, engineFrame>>

\* setMasterVolume(value)
MixerSetMasterVolume(value) ==
  /\ kind \in MixerKinds
  /\ opsLeft > 0
  /\ opsLeft' = opsLeft - 1
  /\ result' = Res("setMasterVolume", "OK")
  /\ IF mixerMasterGain = 0 \/ context = 0
     THEN UNCHANGED <<masterVolume, gainParam>>
     ELSE LET clamped == Max(0, Min(MAX_MASTER_VOLUME, value))
          IN /\ masterVolume' = clamped
             /\ gainParam' = [gainParam EXCEPT ![mixerMasterGain] =
                   Schedule(PinAtCurrent(@),
                            Ev("exp", Max(FLOOR, clamped), MASTER_VOLUME_RAMP))]
  /\ UNCHANGED <<context, ctxState, inputNode, isInitialized, connectedEngines,
                 mixerMasterGain, sendGains, calls, microtasks, disposed,
                 engineFrame>>

\* setEngineVolume(id, value)
MixerSetEngineVolume(id, value) ==
  /\ kind \in MixerKinds
  /\ opsLeft > 0
  /\ opsLeft' = opsLeft - 1
  /\ result' = Res("setEngineVolume", "OK")
  /\ IF ~connectedEngines[id].present \/ context = 0
     THEN UNCHANGED <<connectedEngines, sendGains>>
     ELSE LET clamped == Max(0, Min(MAX_ENGINE_VOLUME, value))
          IN /\ connectedEngines' = [connectedEngines EXCEPT ![id].volume = clamped]
             /\ sendGains' = [sendGains EXCEPT ![connectedEngines[id].node].gain =
                   Schedule(PinAtCurrent(@),
                            Ev("exp", Max(FLOOR, clamped), ENGINE_VOLUME_RAMP))]
  /\ UNCHANGED <<context, ctxState, gainParam, inputNode, isInitialized,
                 mixerMasterGain, masterVolume, calls, microtasks, disposed,
                 engineFrame>>

\* muteEngine(id, mute) applied to the registry reg and the send gains sends.
\* The flag is stored and the timeline pinned before the ramp is scheduled;
\* exponentialRampToValueAtTime(0) throws a RangeError.
muteEngine(reg, sends, id, mute) ==
  IF ~reg[id].present \/ context = 0
  THEN [reg |-> reg, sends |-> sends, threw |-> FALSE]
  ELSE LET targetVolume == IF mute THEN FLOOR ELSE reg[id].volume
           n == reg[id].node
       IN [reg |-> [reg EXCEPT ![id].muted = mute],
           sends |-> [sends EXCEPT ![n].gain =
                        IF targetVolume = 0 THEN PinAtCurrent(@)
                        ELSE Schedule(PinAtCurrent(@),
                                      Ev("exp", targetVolume, MUTE_RAMP))],
           threw |-> targetVolume = 0]

\* a mute that also stops the engine behind the send gain
mixBusStopsEngine ==
  /\ state' = "idle"
  /\ UNCHANGED <<masterGain, currentCarrierFreq, currentBeatFreq, subGraph,
                 graphs, stopTimeout, supraVars, frameVars>>

\* what muteEngine() and soloEngine() do to the engines they were given
mixBusOnly == UNCHANGED engineFrame

MixerMuteEngine(id, mute) ==
  /\ kind \in MixerKinds
  /\ opsLeft > 0
  /\ opsLeft' = opsLeft - 1
  /\ LET r == muteEngine(connectedEngines, sendGains, id, mute)
     IN /\ connectedEngines' = r.reg
        /\ sendGains' = r.sends
        /\ result' = Res("muteEngine", IF r.threw THEN "RangeError" ELSE "OK")
  /\ mixBusOnly
  /\ UNCHANGED <<context, ctxState, gainParam, inputNode, isInitialized,
                 mixerMasterGain, masterVolume, calls, microtasks, disposed>>

\* the keys of connectedEngines in insertion order: an entry is inserted
\* together with the creation of its send gain, from node n on
RECURSIVE KeysFrom(_, _)
KeysFrom(reg, n) ==
  IF n > MaxSends THEN <<>>
  ELSE LET here == {e \in EngineIds : reg[e].present /\ reg[e].node = n}
       IN (IF here = {} THEN <<>> ELSE <<CHOOSE e \in here : TRUE>>)
            \o KeysFrom(reg, n + 1)

\* the forEach of soloEngine() over the ids of todo: with soloed = 0 every
\* one is unmuted, otherwise every one but soloed is muted; a throw ends it
RECURSIVE muteEach(_, _, _)
muteEach(todo, st, soloed) ==
  IF todo = <<>> \/ st.threw THEN st
  ELSE muteEach(Tail(todo),
                muteEngine(st.reg, st.sends, Head(todo),
                           soloed # 0 /\ Head(todo) # soloed),
                soloed)

MixerSoloEngine(id, solo) ==
  /\ kind \in MixerKinds
  /\ opsLeft > 0
  /\ opsLeft' = opsLeft - 1
  /\ IF ~connectedEngines[id].present
     THEN /\ result' = Res("soloEngine", "OK")
          /\ UNCHANGED <<connectedEngines, sendGains>>
     ELSE LET flagged == [connectedEngines EXCEPT ![id].solo = solo]
              r == muteEach(KeysFrom(flagged, 1),
                            [reg |-> flagged, sends |-> sendGains, threw |-> FALSE],
                            IF solo THEN id ELSE 0)
          IN /\ connectedEngines' = r.reg
             /\ sendGains' = r.sends
             /\ result' = Res("soloEngine", IF r.threw THEN "RangeError" ELSE "OK")
  /\ mixBusOnly
  /\ UNCHANGED <<context, ctxState, gainParam, inputNode, isInitialized,
                 mixerMasterGain, masterVolume, calls, microtasks, disposed>>

(***************************************************************************)
(* The render clock                                                        *)
(***************************************************************************)
Waiting(c) == c.pc \in {"stopTimer", "settle", "fadeWait"}

\* a started buffer source that will play its buffer through
WillEnd(m) == m.present /\ ~m.loop /\ m.ended = "no" /\ m.remaining > 0

\* one tick of a started buffer source: a source that does not loop ends
\* when its buffer is played through, and its "ended" event is queued
playSource(m) ==
  IF ~WillEnd(m) THEN m
  ELSE IF m.remaining > 1 THEN [m EXCEPT !.remaining = @ - 1]
  ELSE [m EXCEPT !.remaining = 0,
                 !.ended = IF m.onended THEN "queued" ELSE "done"]

Tick ==
  /\ microtasks = <<>>
  /\ \A s \in Slots : Waiting(calls[s]) => calls[s].t > 0
  /\ \A g \in 1..MaxGraphs : graphs[g].messageSource.ended # "queued"
  /\ \/ \E s \in Slots : Waiting(calls[s])
     \/ \E g \in 1..MaxGains : Pending(gainParam[g])
     \/ \E g \in 1..MaxGraphs :
          graphs[g].alive /\ WillEnd(graphs[g].messageSource)
     \/ \E g \in 1..MaxGraphs : Pending(graphs[g].left) \/ Pending(graphs[g].right)
     \/ \E v \in 1..MaxVoices : Pending(voices[v].gain)
     \/ \E n \in 1..MaxSends : Pending(sendGains[n].gain)
  /\ calls' = [s \in Slots |->
        IF Waiting(calls[s]) THEN [calls[s] EXCEPT !.t = @ - 1] ELSE calls[s]]
  /\ gainParam' = [g \in 1..MaxGains |-> Advance(gainParam[g])]
  /\ graphs' = [g \in 1..MaxGraphs |->
        [graphs[g] EXCEPT !.left = Advance(@), !.right = Advance(@),
                          !.messageSource = IF graphs[g].alive
                                            THEN playSource(@) ELSE @]]
  /\ voices' = [v \in 1..MaxVoices |-> [voices[v] EXCEPT !.gain = Advance(@)]]
  /\ sendGains' = [n \in 1..MaxSends |-> [sendGains[n] EXCEPT !.gain = Advance(@)]]
  /\ UNCHANGED <<context, ctxState, masterGain, state, currentCarrierFreq,
                 currentBeatFreq, subGraph, stopTimeout, microtasks, result,
                 disposed, opsLeft, frameVars, layers, activeNodes, isPlaying,
                 inputNode, isInitialized, connectedEngines, mixerMasterGain,
                 masterVolume>>

\* play(), stop() and setVolume() in every interleaving
Next ==
  \/ \E f \in freqInputs : PlayCall(f[1], f[2])
  \/ PlayAfterInit
  \/ \E s \in Slots : PlayAfterSettle(s)
  \/ StopCall
  \/ \E s \in Slots : StopTimer(s)
  \/ \E p \in volumeInputs : SetVolume(p)
  \/ Tick

Spec == Init /\ [][Next]_vars

\* play(), stop() and updateFrequencies() over the boundary frequencies
NextFreq ==
  \/ \E f \in freqInputs : PlayCall(f[1], f[2])
  \/ PlayAfterInit
  \/ \E s \in Slots : PlayAfterSettle(s)
  \/ StopCall
  \/ \E s \in Slots : StopTimer(s)
  \/ \E f \in freqInputs : UpdateFrequencies(f[1], f[2])
  \/ Tick

SpecFreq == InitFreq /\ [][NextFreq]_vars

\* the lifecycle with dispose()
NextDispose ==
  \/ \E f \in freqInputs : PlayCall(f[1], f[2])
  \/ PlayAfterInit
  \/ PlayAfterStop
  \/ \E s \in Slots : PlayAfterSettle(s)
  \/ StopCall
  \/ \E s \in Slots : StopTimer(s)
  \/ \E p \in volumeInputs : SetVolume(p)
  \/ \E f \in freqInputs : UpdateFrequencies(f[1], f[2])
  \/ DisposeCall
  \/ DisposeAfterStop
  \/ \E s \in Slots : DisposeAfterClose(s)
  \/ Tick

SpecDispose == Init /\ [][NextDispose]_vars

InitSupra ==
  /\ \E ext \in BOOLEAN : InitEngine("supraliminal", ext)
  /\ opsLeft = MaxSupraOps
  /\ freqInputs = {}
  /\ volumeInputs = {GainOne \div 2}
  /\ exactValue \in BOOLEAN
  /\ layerInputs = {NoOptions}

\* the Supraliminal engine: layers, play(), stop() and the restarts
NextSupra ==
  \/ SupraPlayCall
  \/ SupraPlayAfterInit
  \/ SupraStopCall
  \/ \E s \in Slots : SupraStopTimer(s)
  \/ \E s \in Slots : SupraRestartAfterSettle(s)
  \/ \E o \in layerInputs : SupraAddLayerCall(o)
  \/ SupraAddLayerAfterInit
  \/ \E s \in Slots : SupraAddLayerDecoded(s)
  \/ \E l \in LayerIds : SupraRemoveLayer(l)
  \/ \E l \in LayerIds, v \in volumeInputs : SupraUpdateLayer(l, v)
  \/ \E l \in LayerIds, en \in BOOLEAN : SupraUpdateLayerEnabled(l, en)
  \/ SupraDisposeCall
  \/ SupraDisposeAfterStop
  \/ \E s \in Slots : SupraDisposeAfterClose(s)
  \/ Tick

SpecSupra == InitSupra /\ [][NextSupra]_vars

\* every component that can be built on a shared context, built on one or
\* on its own
InitOwnership ==
  /\ \E k \in {"silent", "supraliminal", "mixer"}, ext \in BOOLEAN :
       InitEngine(k, ext)
  /\ opsLeft = MaxOps
  /\ freqInputs = {<<4400, 100>>}
  /\ volumeInputs = {GainOne \div 2}
  /\ exactValue = FALSE
  /\ layerInputs = {NoOptions}

NextOwnership ==
  \/ \E f \in freqInputs : PlayCall(f[1], f[2])
  \/ PlayAfterInit
  \/ PlayAfterStop
  \/ \E s \in Slots : PlayAfterSettle(s)
  \/ StopCall
  \/ \E s \in Slots : StopTimer(s)
  \/ DisposeCall
  \/ DisposeAfterStop
  \/ \E s \in Slots : DisposeAfterClose(s)
  \/ SupraPlayCall
  \/ SupraPlayAfterInit
  \/ SupraStopCall
  \/ \E s \in Slots : SupraStopTimer(s)
  \/ \E o \in layerInputs : SupraAddLayerCall(o)
  \/ SupraAddLayerAfterInit
  \/ \E s \in Slots : SupraAddLayerDecoded(s)
  \/ SupraDisposeCall
  \/ SupraDisposeAfterStop
  \/ \E s \in Slots : SupraDisposeAfterClose(s)
  \/ MixerInit
  \/ \E e \in EngineIds, v \in volumeInputs : MixerConnectEngine(e, v)
  \/ \E e \in EngineIds : MixerDisconnectEngine(e)
  \/ \E s \in Slots : MixerDisconnectTimer(s)
  \/ MixerDisposeCall
  \/ MixerDisposeAfterDisconnect
  \/ \E s \in Slots : MixerDisposeAfterClose(s)
  \/ Tick

SpecOwnership == InitOwnership /\ [][NextOwnership]_vars

\* the mixer alone: the registry, the send gains and the master volume,
\* with the volume 0 among the inputs
InitMixer ==
  /\ InitEngine("mixer", FALSE)
  /\ opsLeft = MaxMixerOps
  /\ freqInputs = {}
  /\ volumeInputs = {0, GainOne \div 2}
  /\ exactValue = FALSE
  /\ layerInputs = {NoOptions}

NextMixer ==
  \/ MixerInit
  \/ \E e \in EngineIds, v \in volumeInputs : MixerConnectEngine(e, v)
  \/ \E e \in EngineIds : MixerDisconnectEngine(e)
  \/ \E s \in Slots : MixerDisconnectTimer(s)
  \/ \E v \in volumeInputs : MixerSetMasterVolume(v)
  \/ \E e \in EngineIds, v \in volumeInputs : MixerSetEngineVolume(e, v)
  \/ \E e \in EngineIds, m \in BOOLEAN : MixerMuteEngine(e, m)
  \/ \E e \in EngineIds, m \in BOOLEAN : MixerSoloEngine(e, m)
  \/ Tick

SpecMixer == InitMixer /\ [][NextMixer]_vars

\* the registry of the mixer: connectEngine() and disconnectEngine() in
\* every interleaving
InitRegistry ==
  /\ InitEngine("mixer", FALSE)
  /\ opsLeft = MaxMixerOps
  /\ freqInputs = {}
  /\ volumeInputs = {GainOne \div 2}
  /\ exactValue = FALSE
  /\ layerInputs = {NoOptions}

NextRegistry ==
  \/ MixerInit
  \/ \E e \in EngineIds, v \in volumeInputs : MixerConnectEngine(e, v)
  \/ \E e \in EngineIds : MixerDisconnectEngine(e)
  \/ \E s \in Slots : MixerDisconnectTimer(s)
  \/ Tick

SpecRegistry == InitRegistry /\ [][NextRegistry]_vars

\* a session: a Silent engine and a mixer on one shared context, the engine
\* connected to the mixer under the id SessionEngine, played when idle and
\* stopped while the mixer mutes and solos it
SessionEngine == CHOOSE e \in EngineIds : \A o \in EngineIds : e <= o

InitSession ==
  /\ InitEngine("session", TRUE)
  /\ opsLeft = MaxMixerOps
  /\ freqInputs = {<<4400, 100>>}
  /\ volumeInputs = {GainOne \div 2}
  /\ exactValue = FALSE
  /\ layerInputs = {NoOptions}

NextSession ==
  \/ \E f \in freqInputs : state = "idle" /\ PlayCall(f[1], f[2])
  \/ PlayAfterInit
  \/ StopCall
  \/ \E s \in Slots : StopTimer(s)
  \/ MixerInit
  \/ \E v \in volumeInputs : MixerConnectEngine(SessionEngine, v)
  \/ \E m \in BOOLEAN : MixerMuteEngine(SessionEngine, m)
  \/ \E m \in BOOLEAN : MixerSoloEngine(SessionEngine, m)
  \/ Tick

SpecSession == InitSession /\ [][NextSession]_vars

\* the layers of the Supraliminal engine: addLayer(), play() and the
\* updateLayer() calls in every interleaving
InitLayers ==
  /\ InitEngine("supraliminal", FALSE)
  /\ opsLeft = MaxOps
  /\ freqInputs = {}
  /\ volumeInputs = {GainOne \div 2}
  /\ exactValue = FALSE
  /\ layerInputs = {NoOptions}

NextLayers ==
  \/ SupraPlayCall
  \/ SupraPlayAfterInit
  \/ \E s \in Slots : SupraStopTimer(s)
  \/ \E s \in Slots : SupraRestartAfterSettle(s)
  \/ \E o \in layerInputs : SupraAddLayerCall(o)
  \/ SupraAddLayerAfterInit
  \/ \E s \in Slots : SupraAddLayerDecoded(s)
  \/ \E l \in LayerIds, v \in volumeInputs : SupraUpdateLayer(l, v)
  \/ \E l \in LayerIds : SupraUpdateLayerFilter(l)
  \/ \E l \in LayerIds, en \in BOOLEAN : SupraUpdateLayerEnabled(l, en)
  \/ Tick

SpecLayers == InitLayers /\ [][NextLayers]_vars

(***************************************************************************)
(* Properties of the tone engines (Binaural, Isochronic, Silent)           *)
(***************************************************************************)

\* C1: the playback state changes only along Idle->Playing,
\* Playing->Stopping and Stopping->Idle; never Stopping->Playing and never
\* Playing->Idle directly.
C1_StateMachine ==
  [][state' # state =>
       <<state, state'>> \in {<<"idle", "playing">>, <<"playing", "stopping">>,
                              <<"stopping", "idle">>}]_vars

\* C2: a play() or updateFrequencies() call rejected by parameter validation
\* leaves the playback state, the stored current frequencies and the live
\* sub-graph exactly as they were, whatever the state at the call.
C2_RejectedCallMutatesNothing ==
  [][(opsLeft' = opsLeft - 1 /\ result'.code = "INVALID_FREQUENCY")
       => UNCHANGED <<state, currentCarrierFreq, currentBeatFreq, subGraph,
                      graphs>>]_vars

\* C3: play() on an Idle engine with a carrier outside [200, 1000] Hz or a
\* beat outside [0.5, 100] Hz (a pulse rate outside [0.5, 40] Hz for the
\* Isochronic engine) fails with INVALID_FREQUENCY, creates no oscillator and
\* leaves the state Idle.
C3_OutOfRangePlayFails ==
  [][\A f \in freqInputs :
       LET outside == \/ f[1] < 2000 \/ f[1] > 10000
                      \/ f[2] < 5
                      \/ (kind = "binaural" /\ f[2] > 1000)
                      \/ (kind = "isochronic" /\ f[2] > 400)
       IN (state = "idle" /\ outside /\ PlayCall(f[1], f[2]))
            => /\ result' = Res("play", "INVALID_FREQUENCY")
               /\ state' = "idle"
               /\ UNCHANGED <<graphs, subGraph, calls, microtasks>>]_vars

C3_Witness ==
  /\ result = Res("play", "INVALID_FREQUENCY")
  /\ state = "idle"
  /\ opsLeft = MaxFreqOps - 1
  /\ \A g \in 1..MaxGraphs : graphs[g] = NoGraph

\* C4: BinauralEngine.play(carrier, beat) on an Idle engine with carrier in
\* [200, 1000] Hz and beat in [0.5, 100] Hz is accepted, and ends with state
\* Playing, the left oscillator at carrier and the right one at carrier + beat.
C4_ValidPlayBuilds ==
  [][kind = "binaural" =>
       /\ \A f \in freqInputs :
            (/\ state = "idle"
             /\ f[1] >= 2000 /\ f[1] <= 10000 /\ f[2] >= 5 /\ f[2] <= 1000
             /\ PlayCall(f[1], f[2]))
              => /\ result' = result
                 /\ calls'[FreeSlot] = Call("play", "init", 0, f[1], f[2], 0)
       /\ \A s \in Slots :
            (calls[s].op = "play" /\ calls[s].pc = "init" /\ calls'[s] = NoCall)
              => /\ state' = "playing"
                 /\ subGraph' # 0
                 /\ graphs'[subGraph'].alive
                 /\ Value(graphs'[subGraph'].left) = calls[s].carrier
                 /\ Value(graphs'[subGraph'].right) =
                      calls[s].carrier + calls[s].beat]_vars

C4_Witness ==
  /\ kind = "binaural"
  /\ state = "playing"
  /\ result = Res("play", "OK")
  /\ subGraph # 0
  /\ Value(graphs[subGraph].left) = 10000
  /\ Value(graphs[subGraph].right) = 10100

\* C5: whenever a sub-graph node is stopped or disconnected, the gain it
\* plays through has reached the fade-out target (at most epsilon).
C5_TeardownAtFadeTarget ==
  [][\A g \in 1..MaxGraphs :
       (graphs[g].alive /\ ~graphs'[g].alive)
         => Value(gainParam[graphs[g].gain]) <= Epsilon]_vars

\* C6: no play() builds a sub-graph while a teardown timer of the same
\* engine is still pending.
C6_NoBuildWhileTeardownPending ==
  [][(\E g \in 1..MaxGraphs : ~graphs[g].alive /\ graphs'[g].alive)
       => \A s \in Slots : calls[s].pc # "stopTimer"]_vars

\* C7: nodes of an old and of a new sub-graph never exist at the same time.
C7_OldAndNewNeverCoexist ==
  Cardinality({g \in 1..MaxGraphs : graphs[g].alive}) <= 1

\* C9: once dispose() has completed, no later call creates an audio context
\* or an audio node or brings the engine back to Playing.
C9_DisposeIsTerminal ==
  [][(disposed /\ \A s \in Slots : Free(s))
       => /\ ctxState' = ctxState
          /\ UsedGains' = UsedGains
          /\ UsedGraphs' = UsedGraphs
          /\ state' # "playing"]_vars

\* C8: stop() on an engine that is Idle or Stopping (for the Supraliminal
\* engine: not playing, or with a stop() already waiting for its fade)
\* changes neither the state, the sub-graph, the gain automation nor any
\* pending teardown timer.
C8_StopIsIdempotent ==
  [][/\ (StopCall /\ state \in {"idle", "stopping"})
          => UNCHANGED <<state, subGraph, graphs, gainParam, stopTimeout, calls>>
     /\ (SupraStopCall
           /\ (~isPlaying \/ \E s \in Slots : calls[s].op = "stop"
                                              /\ calls[s].pc = "stopTimer"))
          => UNCHANGED <<isPlaying, activeNodes, voices, calls>>]_vars

(***************************************************************************)
(* Ownership of the audio context                                          *)
(***************************************************************************)

\* C10: the shared context that a Silent engine, a Supraliminal engine or a
\* mixer was constructed with is never closed by that component, whatever it
\* does, dispose() included.
C10_SharedContextStaysOpen == ctxState[SharedCtx] = "running"

C10_Witness ==
  /\ kind = "mixer"
  /\ externalContext
  /\ disposed
  /\ \E n \in 1..MaxSends : sendGains[n].gain # <<>> /\ ~sendGains[n].connected
  /\ ctxState[SharedCtx] = "running"
(***************************************************************************)
(* Properties of the mixer registry                                        *)
(***************************************************************************)
Registered == {e \in EngineIds : connectedEngines[e].present}

\* C11: whenever an entry of the registry has solo = true, every other entry
\* has muted = true.
C11_SoloForcesOthersMuted ==
  \A e \in Registered :
    connectedEngines[e].solo =>
      \A o \in Registered \ {e} : connectedEngines[o].muted

\* the last event on the timeline tl is a ramp of muteEngine() to v
MuteRampTo(tl, v) == tl # <<>> /\ tl[Len(tl)] = Ev("exp", v, MUTE_RAMP)

\* C12: soloEngine(id, true) on a registered id mutes every other registered
\* source and ramps its send gain to the floor while the soloed source is
\* unmuted; soloEngine(id, false) unmutes every registered source and ramps
\* its send gain back to its stored volume.
C12_SoloMutesAndRestores ==
  [][\A e \in Registered :
       /\ (MixerSoloEngine(e, TRUE) /\ context # 0) =>
            /\ ~connectedEngines'[e].muted
            /\ \A o \in Registered \ {e} :
                 /\ connectedEngines'[o].muted
                 /\ MuteRampTo(sendGains'[connectedEngines[o].node].gain, FLOOR)
       /\ (MixerSoloEngine(e, FALSE) /\ context # 0) =>
            \A o \in Registered :
              /\ ~connectedEngines'[o].muted
              /\ MuteRampTo(sendGains'[connectedEngines[o].node].gain,
                            connectedEngines[o].volume)]_vars

\* C13: when the wait of a disconnectEngine(id) ends and the send gain is
\* disconnected, its gain is at the silence floor, and the registry then
\* has no entry for id.
C13_DisconnectAtSilence ==
  [][\A s \in Slots :
       (MixerDisconnectTimer(s) /\ calls[s].op = "disconnectEngine") =>
         /\ Value(sendGains[calls[s].node].gain) <= FLOOR
         /\ ~connectedEngines'[Head(calls[s].todo)].present]_vars

\* C14: connectEngine() with an id that is not registered, on an initialized
\* mixer, adds the entry (volume, muted = false, solo = false) with a new
\* send gain that starts at the floor and ramps to the volume, and changes no
\* other entry.
C14_ConnectAddsOneEntry ==
  [][\A e \in EngineIds, v \in volumeInputs :
       (MixerConnectEngine(e, v) /\ inputNode /\ context # 0
          /\ ~connectedEngines[e].present) =>
         \E n \in 1..MaxSends :
           /\ sendGains[n].gain = <<>>
           /\ connectedEngines' = [connectedEngines EXCEPT ![e] =
                [present |-> TRUE, node |-> n, volume |-> v,
                 muted |-> FALSE, solo |-> FALSE]]
           /\ Value(sendGains'[n].gain) = FLOOR
           /\ sendGains'[n].gain[Len(sendGains'[n].gain)]
                = Ev("exp", v, CONNECT_FADE)
           /\ \A m \in 1..MaxSends \ {n} : sendGains'[m] = sendGains[m]]_vars

\* C15: connectEngine() with an id that is already registered, a pending
\* disconnectEngine() or not, changes neither the registry nor any send
\* gain; no send gain belongs to two entries.
C15_OneEntryPerId ==
  [][/\ \A e \in Registered, v \in volumeInputs :
          MixerConnectEngine(e, v) => UNCHANGED <<connectedEngines, sendGains>>
     /\ \A e, o \in Registered :
          connectedEngines[e].node = connectedEngines[o].node => e = o]_vars

C15_Witness ==
  /\ result = Res("connectEngine", "ALREADY_CONNECTED")
  /\ \E s \in Slots, e \in Registered :
       /\ calls[s].op = "disconnectEngine"
       /\ calls[s].pc = "fadeWait"
       /\ calls[s].todo = <<e>>
       /\ Pending(sendGains[connectedEngines[e].node].gain)

\* C17: no exponential ramp is ever requested with the target 0: none
\* throws for it, and every scheduled one targets the floor or more.
C17_NoRampToZero ==
  /\ result.code \notin {"RangeError", "PLAYBACK_ERROR"}
  /\ \A n \in 1..MaxSends : \A i \in 1..Len(sendGains[n].gain) :
       sendGains[n].gain[i].k = "exp" => sendGains[n].gain[i].v >= FLOOR
  /\ \A g \in 1..MaxGains : \A i \in 1..Len(gainParam[g]) :
       gainParam[g][i].k = "exp" => gainParam[g][i].v >= FLOOR
  /\ \A x \in 1..MaxVoices : \A i \in 1..Len(voices[x].gain) :
       voices[x].gain[i].k = "exp" => voices[x].gain[i].v >= FLOOR
\* C16: muteEngine() and soloEngine() leave the playback state, the
\* sub-graph and the internal master gain of the connected engine as they
\* are.
C16_MuteLeavesEngineAlone ==
  [][(\E e \in EngineIds, m \in BOOLEAN :
        MixerMuteEngine(e, m) \/ MixerSoloEngine(e, m))
       => UNCHANGED <<state, subGraph, graphs, masterGain, gainParam,
                      stopTimeout, currentCarrierFreq, currentBeatFreq>>]_vars

C16_Witness ==
  /\ state = "playing"
  /\ subGraph # 0
  /\ graphs[subGraph].alive
  /\ result.op \in {"muteEngine", "soloEngine"}
  /\ \E e \in Registered :
       /\ connectedEngines[e].muted
       /\ MuteRampTo(sendGains[connectedEngines[e].node].gain, FLOOR)
(***************************************************************************)
(* Properties of the layers of the Supraliminal engine                     *)
(***************************************************************************)
\* the layers that have a voice sounding
Sounding == {voices[x].layer : x \in {y \in 1..MaxVoices : voices[y].alive}}

\* no call is in flight
Quiet == microtasks = <<>> /\ \A s \in Slots : Free(s)

\* getActiveLayerCount() counts the keys of activeNodes
ActiveLayers(an) == {l \in LayerIds : an[l] # 0}

\* C18: once every call has completed on a playing engine, whatever layers
\* were added, removed, enabled or disabled while it played, the sounding
\* voices are those of the enabled layers.
C18_RestartTracksLayers ==
  (isPlaying /\ Quiet) => Sounding = EnabledLayers

GivenOptions == [NoOptions EXCEPT !.playbackRate = <<20000>>, !.pan = <<-5000>>,
                                  !.volume = <<5000>>]
ZeroOptions == [NoOptions EXCEPT !.pan = <<0>>, !.volume = <<0>>]

InitAddLayer ==
  /\ InitEngine("supraliminal", FALSE)
  /\ opsLeft = MaxLayerOps
  /\ freqInputs = {}
  /\ volumeInputs = {}
  /\ exactValue = FALSE
  /\ layerInputs = {NoOptions, GivenOptions, ZeroOptions}

\* addLayer() with and without options, on a stopped and on a playing
\* engine, and removeLayer()
NextAddLayer ==
  \/ \E o \in layerInputs : SupraAddLayerCall(o)
  \/ SupraAddLayerAfterInit
  \/ \E s \in Slots : SupraAddLayerDecoded(s)
  \/ \E l \in LayerIds : SupraRemoveLayer(l)
  \/ SupraPlayCall
  \/ SupraPlayAfterInit
  \/ \E s \in Slots : SupraStopTimer(s)
  \/ \E s \in Slots : SupraRestartAfterSettle(s)
  \/ Tick

SpecAddLayer == InitAddLayer /\ [][NextAddLayer]_vars

\* getLayers(): the values of the layer map
getLayers == {layers[l] : l \in {k \in LayerIds : layers[k].present}}

\* C21: every successful addLayer(file, opts) adds exactly one entry under an
\* id that the map did not hold, with playbackRate, pan and volume equal to
\* the supplied options (1.0, 0 and 1.0 where omitted), and changes no
\* existing entry; on an engine with no layers getLayers() then holds exactly
\* that entry.
C21_AddLayerStoresOptions ==
  [][\A s \in Slots :
       SupraAddLayerDecoded(s) =>
         \E id \in LayerIds :
           LET supplied == calls[s].opts
               stored == layers'[id]
           IN /\ ~layers[id].present
              /\ stored.present
              /\ stored.playbackRate = IF supplied.playbackRate = <<>> THEN 10000
                                       ELSE supplied.playbackRate[1]
              /\ stored.pan = IF supplied.pan = <<>> THEN 0 ELSE supplied.pan[1]
              /\ stored.volume = IF supplied.volume = <<>> THEN 10000
                                 ELSE supplied.volume[1]
              /\ \A o \in LayerIds \ {id} : layers'[o] = layers[o]
              /\ (\A o \in LayerIds : ~layers[o].present) => getLayers' = {stored}]_vars

C21_Witness ==
  /\ result = Res("addLayer", "OK")
  /\ \E a, b \in LayerIds :
       /\ a # b
       /\ layers[a].present /\ layers[a].volume = 0 /\ layers[a].pan = 0
       /\ layers[a].playbackRate = 10000
       /\ layers[b].present /\ layers[b].volume = 5000 /\ layers[b].pan = -5000
       /\ layers[b].playbackRate = 20000

(***************************************************************************)
(* Live frequency updates                                                  *)
(***************************************************************************)
\* C22: updateFrequencies(carrier, beat) with carrier in [200, 1000] Hz and
\* beat in [0.5, 100] Hz on a Playing Binaural engine keeps the state
\* Playing, stops and creates no oscillator, starts no stop, ramps the left
\* oscillator to carrier and the right one to carrier + beat over the ramp
\* time and stores (carrier, beat); on an engine that is not Playing the call
\* changes nothing.
C22_UpdateWithoutStop ==
  [][kind = "binaural" =>
       \A f \in freqInputs :
         UpdateFrequencies(f[1], f[2]) =>
           IF state = "playing"
           THEN (f[1] >= 2000 /\ f[1] <= 10000 /\ f[2] >= 5 /\ f[2] <= 1000) =>
                  /\ state' = "playing"
                  /\ UNCHANGED <<subGraph, stopTimeout, calls, microtasks,
                                 masterGain, gainParam>>
                  /\ \A g \in 1..MaxGraphs :
                       /\ graphs'[g].alive = graphs[g].alive
                       /\ graphs'[g].gain = graphs[g].gain
                  /\ subGraph # 0
                  /\ LET left == graphs'[subGraph].left
                         right == graphs'[subGraph].right
                     IN /\ left[Len(left)] = Ev("lin", f[1], 10)
                        /\ \E i \in 1..Len(left) :
                             left[i] = Ev("set", Value(graphs[subGraph].left), 0)
                        /\ right[Len(right)] = Ev("lin", f[1] + f[2], 10)
                        /\ \E i \in 1..Len(right) :
                             right[i] = Ev("set", Value(graphs[subGraph].right), 0)
                  /\ currentCarrierFreq' = f[1]
                  /\ currentBeatFreq' = f[2]
           ELSE UNCHANGED <<state, subGraph, graphs, stopTimeout, calls,
                            microtasks, masterGain, gainParam,
                            currentCarrierFreq, currentBeatFreq>>]_vars

C22_Witness ==
  /\ kind = "binaural"
  /\ state = "playing"
  /\ result = Res("updateFrequencies", "OK")
  /\ subGraph # 0
  /\ graphs[subGraph].alive
  /\ currentCarrierFreq = 10000
  /\ currentBeatFreq = 100
  /\ Pending(graphs[subGraph].left)
  /\ Value(graphs[subGraph].left) > 4400
  /\ Value(graphs[subGraph].left) < 10000
  /\ Value(graphs[subGraph].right) > 4405
  /\ Value(graphs[subGraph].right) < 10100

(***************************************************************************)
(* SilentEngine: the message buffer and playWithAM()                       *)
(***************************************************************************)
\* the arguments of loadAudioFile(): two Files and a Blob
MessageInputs ==
  {[id |-> 1, isFile |-> TRUE], [id |-> 2, isFile |-> TRUE],
   [id |-> 3, isFile |-> FALSE]}

\* the LFO of playWithAM() without config.carrierFrequency, in 0.1 Hz
AM_LFO_FREQUENCY == 5

\* loadAudioFile(file) up to its first await that waits for the host;
\* init() has just run when there was no context, so the context check
\* that follows it passes
LoadAudioFileCall(file) ==
  /\ kind = "silent"
  /\ opsLeft > 0
  /\ opsLeft' = opsLeft - 1
  /\ HasFreeSlot
  /\ IF context = 0
     THEN CanInit /\ init
     ELSE UNCHANGED <<context, ctxState, masterGain, gainParam>>
  /\ calls' = [calls EXCEPT ![FreeSlot] =
        [Call("loadAudioFile", "decode", 0, 0, 0, 0) EXCEPT !.file = file]]
  /\ UNCHANGED <<state, currentCarrierFreq, currentBeatFreq, subGraph, graphs,
                 stopTimeout, microtasks, result, disposed, constVars>>

\* what a load that failed in arrayBuffer() or decodeAudioData() assigns,
\* had the buffer been assigned before the decoding is awaited
assignBeforeDecoding(file) ==
  /\ audioBuffer' = file.id
  /\ UNCHANGED audioFileInfo

\* what a load that failed in arrayBuffer() or decodeAudioData() assigns
assignNothing(file) == UNCHANGED <<audioBuffer, audioFileInfo>>

\* file.arrayBuffer() or decodeAudioData() rejects
LoadAudioFileFailed(s) ==
  /\ kind = "silent"
  /\ microtasks = <<>>
  /\ calls[s].op = "loadAudioFile"
  /\ calls[s].pc = "decode"
  /\ assignNothing(calls[s].file)
  /\ result' = Rejected("loadAudioFile", "FILE_LOAD_ERROR", "EncodingError")
  /\ calls' = [calls EXCEPT ![s] = NoCall]
  /\ UNCHANGED <<context, ctxState, masterGain, gainParam, state,
                 currentCarrierFreq, currentBeatFreq, subGraph, graphs,
                 stopTimeout, microtasks, disposed, opsLeft, fixedVars, nodePool,
                 listeners, droppedFrames, supraVars, mixerVars>>

\* decodeAudioData() resolves: the buffer is assigned, then the file info is
\* built; getFileFormat(file.name) throws on a Blob, which has no name
LoadAudioFileDecoded(s) ==
  /\ kind = "silent"
  /\ microtasks = <<>>
  /\ calls[s].op = "loadAudioFile"
  /\ calls[s].pc = "decode"
  /\ audioBuffer' = calls[s].file.id
  /\ IF calls[s].file.isFile
     THEN /\ audioFileInfo' = calls[s].file.id
          /\ result' = Res("loadAudioFile", "OK")
     ELSE /\ UNCHANGED audioFileInfo
          /\ result' = Rejected("loadAudioFile", "FILE_LOAD_ERROR", "TypeError")
  /\ calls' = [calls EXCEPT ![s] = NoCall]
  /\ UNCHANGED <<context, ctxState, masterGain, gainParam, state,
                 currentCarrierFreq, currentBeatFreq, subGraph, graphs,
                 stopTimeout, microtasks, disposed, opsLeft, fixedVars, nodePool,
                 listeners, droppedFrames, supraVars, mixerVars>>

\* the missing-buffer check, had it been made inside the try block: the
\* catch block sets IDLE
rejectInsideTry ==
  /\ result' = Res("playWithAM", "MODULATION_ERROR")
  /\ state' = "idle"
  /\ UNCHANGED <<context, ctxState, masterGain, gainParam, calls, microtasks>>

\* the missing-buffer check of playWithAM(), ahead of the try block
rejectMissingBuffer ==
  /\ result' = Res("playWithAM", "MODULATION_ERROR")
  /\ UNCHANGED <<state, context, ctxState, masterGain, gainParam, calls,
                 microtasks>>

\* playWithAM({}, loop) up to "await this.init()"
PlayWithAMCall(loop) ==
  /\ kind = "silent"
  /\ opsLeft > 0
  /\ opsLeft' = opsLeft - 1
  /\ IF audioBuffer = 0
     THEN rejectMissingBuffer
     ELSE /\ HasFreeSlot
          /\ CanInit
          /\ init
          /\ calls' = [calls EXCEPT ![FreeSlot] =
                [Call("playWithAM", "init", 0, SUBLIMINAL_CARRIER,
                      AM_LFO_FREQUENCY, 0) EXCEPT !.loop = loop]]
          /\ microtasks' = Append(microtasks, FreeSlot)
          /\ UNCHANGED <<state, result>>
  /\ UNCHANGED <<currentCarrierFreq, currentBeatFreq, subGraph, graphs,
                 stopTimeout, disposed, constVars>>

\* the "ended" event of the message source of sub-graph g: the handler
\* calls this.stop() and drops the promise
MessageEnded(g) ==
  /\ kind = "silent"
  /\ microtasks = <<>>
  /\ graphs[g].messageSource.ended = "queued"
  /\ graphs' = [graphs EXCEPT ![g].messageSource.ended = "done"]
  /\ IF state # "playing"
     THEN UNCHANGED <<state, gainParam, stopTimeout, calls, microtasks>>
     ELSE /\ HasFreeSlot
          /\ stopBegin(FreeSlot, Call("stop", "none", 0, 0, 0, 0), microtasks)
  /\ UNCHANGED <<context, ctxState, masterGain, currentCarrierFreq,
                 currentBeatFreq, subGraph, result, disposed, opsLeft,
                 constVars>>

InitMessage ==
  /\ InitEngine("silent", FALSE)
  /\ opsLeft = MaxMessageOps
  /\ freqInputs = {<<0, 5>>}
  /\ volumeInputs = {}
  /\ exactValue = FALSE
  /\ layerInputs = {NoOptions}

\* loadAudioFile(), playWithAM() and play(); nobody calls stop()
NextMessage ==
  \/ \E f \in MessageInputs : LoadAudioFileCall(f)
  \/ \E s \in Slots : LoadAudioFileDecoded(s)
  \/ \E s \in Slots : LoadAudioFileFailed(s)
  \/ \E l \in BOOLEAN : PlayWithAMCall(l)
  \/ \E f \in freqInputs : PlayCall(f[1], f[2])
  \/ PlayAfterInit
  \/ \E s \in Slots : PlayAfterSettle(s)
  \/ \E s \in Slots : StopTimer(s)
  \/ \E g \in 1..MaxGraphs : MessageEnded(g)
  \/ Tick

SpecMessage == InitMessage /\ [][NextMessage]_vars

\* C23: playWithAM() without a loaded message buffer is rejected with
\* MODULATION_ERROR and touches nothing: no context or node is created, no
\* call is left in flight, and the playback state, the running sub-graph
\* and the master gain are what they were
C23_MissingBufferRejected ==
  [][(audioBuffer = 0 /\ \E l \in BOOLEAN : PlayWithAMCall(l))
       => /\ result' = Res("playWithAM", "MODULATION_ERROR")
          /\ UNCHANGED <<state, subGraph, graphs, context, ctxState,
                         masterGain, gainParam, calls, microtasks, stopTimeout,
                         currentCarrierFreq, currentBeatFreq, messageVars>>]_vars

\* a playing engine without a message buffer has rejected a playWithAM()
C23_Witness ==
  /\ audioBuffer = 0
  /\ state = "playing"
  /\ subGraph # 0
  /\ graphs[subGraph].alive
  /\ result = Res("playWithAM", "MODULATION_ERROR")

\* one more call, so that a message can be loaded, played and interfered with
InitAutoStop ==
  /\ InitEngine("silent", FALSE)
  /\ opsLeft = MaxMessageOps + 1
  /\ freqInputs = {<<0, 5>>}
  /\ volumeInputs = {}
  /\ exactValue = FALSE
  /\ layerInputs = {NoOptions}

\* timers, microtasks, events and decoding are run by the host sooner or
\* later; the callers are under no obligation
SpecAutoStop ==
  /\ InitAutoStop
  /\ [][NextMessage]_vars
  /\ WF_vars(PlayAfterInit)
  /\ WF_vars(\E s \in Slots : PlayAfterSettle(s))
  /\ WF_vars(\E s \in Slots : StopTimer(s))
  /\ WF_vars(\E g \in 1..MaxGraphs : MessageEnded(g))
  /\ WF_vars(\E s \in Slots : LoadAudioFileDecoded(s) \/ LoadAudioFileFailed(s))
  /\ WF_vars(Tick)

\* the message source of sub-graph g has played its buffer through
PlayedThrough(g) ==
  LET m == graphs[g].messageSource
  IN m.present /\ ~m.loop /\ m.remaining = 0

\* a message has ended and its sub-graph is still connected
AutoStopDue == \E g \in 1..MaxGraphs : PlayedThrough(g) /\ graphs[g].alive

\* C24: once the message of a playWithAM(config, false) has played through,
\* the engine reaches Idle with that sub-graph torn down although nobody
\* calls stop(); the source of a playWithAM(config, true) never ends
C24_AutoStop ==
  /\ AutoStopDue ~> (state = "idle" /\ ~AutoStopDue)
  /\ [](\A g \in 1..MaxGraphs :
          graphs[g].messageSource.loop => graphs[g].messageSource.ended = "no")

(***************************************************************************)
(* Failures while the sub-graph is built                                   *)
(***************************************************************************)
\* a start time an hour before the context was created, in ticks
EarlyStart == [NoOptions EXCEPT !.startTimeOffset = <<-360000>>]

InitStartFailure ==
  /\ InitEngine("supraliminal", FALSE)
  /\ opsLeft = MaxLayerOps
  /\ freqInputs = {}
  /\ volumeInputs = {}
  /\ exactValue = FALSE
  /\ layerInputs = {NoOptions, EarlyStart}

SpecStartFailure == InitStartFailure /\ [][NextAddLayer]_vars

\* play() is about to build a voice that cannot be started
FailsToBuild == \E l \in LayerIds : Activates(l) /\ StartFails(l)

\* C25: a play() whose sub-graph cannot be built is rejected and leaves the
\* engine not playing; for the Supraliminal engine the failure of a single
\* layer's voice is such a failure
C25_BuildFailureRejected ==
  [][\A s \in Slots :
       (/\ kind = "supraliminal"
        /\ calls[s].op = "play"
        /\ calls'[s] = NoCall
        /\ FailsToBuild)
         => (result'.op = "play" /\ result'.code # "OK" /\ ~isPlaying')]_vars

(***************************************************************************)
(* Loading that fails                                                      *)
(***************************************************************************)
InitLoad ==
  /\ \E k \in {"supraliminal", "silent"} : InitEngine(k, FALSE)
  /\ opsLeft = MaxMessageOps
  /\ freqInputs = {<<0, 5>>}
  /\ volumeInputs = {}
  /\ exactValue = FALSE
  /\ layerInputs = {NoOptions}

\* the loaders of both engines, with every outcome of fetching and decoding
NextLoad ==
  \/ \E o \in layerInputs : SupraAddLayerCall(o)
  \/ \E o \in layerInputs : SupraAddLayerFromURLCall(o)
  \/ SupraAddLayerAfterInit
  \/ \E s \in Slots : SupraFetched(s)
  \/ \E s \in Slots : SupraFetchFailed(s)
  \/ \E s \in Slots : SupraAddLayerDecoded(s)
  \/ \E s \in Slots : SupraAddLayerFailed(s)
  \/ \E l \in LayerIds : SupraRemoveLayer(l)
  \/ \E f \in MessageInputs : LoadAudioFileCall(f)
  \/ \E s \in Slots : LoadAudioFileDecoded(s)
  \/ \E s \in Slots : LoadAudioFileFailed(s)
  \/ \E l \in BOOLEAN : PlayWithAMCall(l)
  \/ PlayAfterInit
  \/ \E g \in 1..MaxGraphs : MessageEnded(g)
  \/ \E s \in Slots : StopTimer(s)
  \/ Tick

SpecLoad == InitLoad /\ [][NextLoad]_vars

\* the errors that a failed fetch or a failed decoding leaves as the cause
LoadErrors == FetchErrors \cup {"EncodingError"}

\* C26: a load whose fetching or decoding fails is rejected with
\* FILE_LOAD_ERROR and the error that caused it, and it registers nothing:
\* none of its steps changes the layer map, the voices, the message buffer
\* or the file info
C26_FailedLoadRegistersNothing ==
  [][\A s \in Slots :
       /\ (SupraFetchFailed(s) \/ SupraAddLayerFailed(s))
            => /\ result'.op = AddLayerOp(calls[s])
               /\ result'.code = "FILE_LOAD_ERROR"
               /\ result'.cause \in LoadErrors
               /\ UNCHANGED <<layers, activeNodes, voices, isPlaying>>
       /\ LoadAudioFileFailed(s)
            => /\ result'.op = "loadAudioFile"
               /\ result'.code = "FILE_LOAD_ERROR"
               /\ result'.cause \in LoadErrors
               /\ UNCHANGED <<audioBuffer, audioFileInfo, state, subGraph, graphs>>
       /\ (/\ calls[s].op \in {"addLayer", "loadAudioFile"}
           /\ calls'[s].op = calls[s].op
           /\ calls'[s].pc # calls[s].pc
           /\ calls'[s].pc \in {"fetch", "decode"})
            => UNCHANGED <<layers, audioBuffer, audioFileInfo>>]_vars

\* a load has failed on an engine that holds the message of an earlier load
C26_Witness ==
  /\ kind = "silent"
  /\ audioBuffer = 1
  /\ audioFileInfo = 1
  /\ result = Rejected("loadAudioFile", "FILE_LOAD_ERROR", "EncodingError")

(***************************************************************************)
(* AudioMixer: a suspended context and the auto-resume                     *)
(***************************************************************************)
\* a mixer on its own or on a shared context, under either autoplay policy
InitResume ==
  /\ \E ext \in BOOLEAN, blocked \in BOOLEAN :
       InitEngineOn("mixer", ext, blocked,
                    IF blocked THEN "suspended" ELSE "running")
  /\ opsLeft = MaxMixerOps
  /\ freqInputs = {}
  /\ volumeInputs = {}
  /\ exactValue = FALSE
  /\ layerInputs = {NoOptions}

NextResume ==
  \/ MixerInit
  \/ MixerResumeContext
  \/ \E e \in EventTypes : Interaction(e)
  \/ \E s \in Slots : ResumeSettled(s)
  \/ ContextSuspended

SpecResume == InitResume /\ [][NextResume]_vars

\* a context.resume() that resumeOnInteraction started is awaited
AutoResuming == \E s \in Slots : calls[s].op = "autoResume"

\* C27: the init() of a mixer whose context is suspended registers the
\* listeners; the first click, touchstart or keydown after it calls
\* context.resume(), which leaves the context running; once such a resume
\* has completed no listener is left and none is registered again, so that
\* no later interaction resumes the context, suspended or not
C27_AutoResumeOnce ==
  [][/\ (MixerInit /\ ~isInitialized /\ ctxState'[context'] = "suspended")
          => listeners' = EventTypes
     /\ \A e \in EventTypes :
          (Interaction(e) /\ listeners = EventTypes
             /\ ctxState[context] = "suspended")
            => \E s \in Slots :
                 /\ Free(s)
                 /\ calls'[s].op = "autoResume"
                 /\ calls'[s].ctx = context
     /\ \A s \in Slots :
          (ResumeSettled(s) /\ calls[s].op = "autoResume")
            => /\ ctxState'[context] = "running"
               /\ listeners' = {}
     /\ (isInitialized /\ listeners = {})
          => (listeners' = {} /\ (AutoResuming' => AutoResuming))]_vars

\* the context that an interaction resumed has been suspended again, and no
\* listener is left to resume it
C27_Witness ==
  /\ isInitialized
  /\ listeners = {}
  /\ context # 0
  /\ ctxState[context] = "suspended"
  /\ result = Res("autoResume", "OK")

(***************************************************************************)
(* AudioMixer: clipping detection                                          *)
(***************************************************************************)
Abs(x) == IF x < 0 THEN 0 - x ELSE x

\* the byte samples on either side of the threshold, at both ends of the
\* range
BoundaryBytes == {1, 2, 254, 255}

\* what getByteTimeDomainData() may deliver: the buffers of up to
\* MaxSamples samples
TimeDomainBuffers ==
  UNION {[1..n -> BoundaryBytes] : n \in 1..MaxSamples}

\* a detector that reports full-scale samples only
ClipsAtFullScale(b) == Abs(b - 128) >= 128

\* Math.abs((b - 128) / 128) >= 0.99, in hundredths of 1/128
ClipsAt(b) == 100 * Abs(b - 128) >= 99 * 128

\* the for loop of isClipping() from index i on
RECURSIVE clippingFrom(_, _)
clippingFrom(dataArray, i) ==
  IF i > Len(dataArray) THEN FALSE
  ELSE IF ClipsAt(dataArray[i]) THEN TRUE
  ELSE clippingFrom(dataArray, i + 1)

\* isClipping() when the post-limiter analyser delivers dataArray; the
\* analyser exists exactly when the processing chain does
isClipping(dataArray) ==
  IF ~inputNode THEN FALSE ELSE clippingFrom(dataArray, 1)

\* what a reading returns, with the buffer it was computed from
Reading(op, dataArray, value) ==
  [op |-> op, code |-> "OK", data |-> dataArray, value |-> value]

MixerIsClipping(dataArray) ==
  /\ kind \in MixerKinds
  /\ opsLeft > 0
  /\ opsLeft' = opsLeft - 1
  /\ result' = Reading("isClipping", dataArray, isClipping(dataArray))
  /\ UNCHANGED <<context, ctxState, gainParam, calls, microtasks, disposed,
                 mixerVars, engineFrame>>

\* updatePerformanceMetrics(), the callback of the monitoring interval:
\* a buffer that clips counts as a dropped frame
MixerUpdateMetrics(dataArray) ==
  /\ kind \in MixerKinds
  /\ opsLeft > 0
  /\ opsLeft' = opsLeft - 1
  /\ IF context = 0
     THEN UNCHANGED <<droppedFrames, result>>
     ELSE /\ droppedFrames' = IF isClipping(dataArray)
                              THEN droppedFrames + 1 ELSE droppedFrames
          /\ result' = Reading("updatePerformanceMetrics", dataArray,
                               isClipping(dataArray))
  /\ UNCHANGED <<context, ctxState, gainParam, calls, microtasks, disposed,
                 mixerVars, masterGain, toneVars, supraVars, fixedVars, nodePool,
                 messageVars, listeners>>

InitClipping ==
  /\ InitEngine("mixer", FALSE)
  /\ opsLeft = MaxClipOps
  /\ freqInputs = {}
  /\ volumeInputs = {GainOne \div 2}
  /\ exactValue = FALSE
  /\ layerInputs = {NoOptions}

\* readings of the analyser on a mixer with and without engines
NextClipping ==
  \/ MixerInit
  \/ \E e \in EngineIds, v \in volumeInputs : MixerConnectEngine(e, v)
  \/ \E d \in TimeDomainBuffers : MixerIsClipping(d)
  \/ \E d \in TimeDomainBuffers : MixerUpdateMetrics(d)
  \/ Tick

SpecClipping == InitClipping /\ [][NextClipping]_vars

\* the calls that read the analyser; every other call returns under its
\* own name
ReadingOps == {"isClipping", "updatePerformanceMetrics"}

\* C28: isClipping() is true exactly when some sample b of the buffer has
\* |b - 128| / 128 >= 0.99, and neither it nor the metrics update touches a
\* gain, the registry of engines or the state of the mixer
C28_ClippingIsAdvisory ==
  [][(opsLeft' # opsLeft /\ result'.op \in ReadingOps)
       => /\ inputNode
               => (result'.value <=>
                     \E i \in 1..Len(result'.data) :
                        100 * Abs(result'.data[i] - 128) >= 99 * 128)
          /\ (~inputNode /\ result' # result) => ~result'.value
          /\ UNCHANGED <<gainParam, sendGains, connectedEngines,
                         mixerMasterGain, masterVolume, inputNode,
                         isInitialized, context, ctxState, calls>>]_vars

\* a buffer whose only extreme sample is 255 was reported as clipping on a
\* mixer with an engine connected
C28_Witness ==
  /\ inputNode
  /\ \E e \in EngineIds : connectedEngines[e].present
  /\ result.op = "isClipping"
  /\ result.value
  /\ \E i \in 1..Len(result.data) : result.data[i] = 255
  /\ \A i \in 1..Len(result.data) : result.data[i] \in {2, 255}

(***************************************************************************)
(* SupraliminalEngine: the node pools                                      *)
(***************************************************************************)
\* the voices registered in activeNodes that hold node n of type t
Holders(n, t) == {v \in Active(activeNodes) : voices[v].nodes[t] = n}

\* the voices, registered or not, that hold node n of type t
Referents(n, t) == {v \in 1..MaxVoices : voices[v].nodes[t] = n}

\* the positions of node n in the pool of type t
Pooled(n, t) == {i \in 1..Len(nodePool[t]) : nodePool[t][i] = n}

CheckedOut(n, t) ==
  /\ Pooled(n, t) = {}
  /\ Cardinality(Holders(n, t)) = 1
  /\ Referents(n, t) = Holders(n, t)

InPool(n, t) ==
  /\ Cardinality(Pooled(n, t)) = 1
  /\ Referents(n, t) = {}

\* C29: every pooled node is either checked out and referenced by exactly one
\* active voice, or in its pool once and referenced by no voice
C29_PooledNodeHasOneOwner ==
  \A t \in NodeTypes : \A n \in KnownNodes(voices, nodePool, t) :
    CheckedOut(n, t) \/ InPool(n, t)

(***************************************************************************)
(* The pool functions on pools that are empty, one below the maximum and   *)
(* full.  A pool fills up only after more than MAX_POOL_SIZE voices have   *)
(* sounded at once, so the functions are applied to pools of those sizes   *)
(* and to LayerNodes that hold nodes created while the pools were empty.   *)
(***************************************************************************)
PoolSizes == {0, MAX_POOL_SIZE - 1, MAX_POOL_SIZE}

\* the LayerNodes that take part: one per layer id
PoolHolders == 1..MaxLayers

\* a pool that holds the nodes 1..k
FilledPool(k) == [i \in 1..k |-> i]

\* holder v holds, of every type, a node that is not in its pool
HeldNodes(sizes, v) == [t \in NodeTypes |-> sizes[t] + v]

PoolResult(op, t, n) == [op |-> op, code |-> "OK", type |-> t, node |-> n]

\* returnNodeToPool(node, type) for the node of type t that holder v holds
PoolReturn(v, t) ==
  /\ kind = "supraliminal"
  /\ opsLeft > 0
  /\ opsLeft' = opsLeft - 1
  /\ voices[v].nodes[t] # 0
  /\ nodePool' = returnNodeToPool(nodePool, voices[v].nodes[t], t)
  /\ voices' = [voices EXCEPT ![v].nodes[t] = 0]
  /\ result' = PoolResult("returnNodeToPool", t, voices[v].nodes[t])
  /\ UNCHANGED <<context, ctxState, masterGain, gainParam, toneVars, layers,
                 activeNodes, isPlaying, calls, microtasks, disposed, restVars,
                 mixerVars>>

\* getOrCreateGainNode(), getOrCreatePannerNode() or getOrCreateFilterNode()
\* for holder v
PoolGet(v, t) ==
  /\ kind = "supraliminal"
  /\ opsLeft > 0
  /\ opsLeft' = opsLeft - 1
  /\ voices[v].nodes[t] = 0
  /\ LET got == getOrCreate(voices, nodePool, t)
     IN /\ nodePool' = got.pool
        /\ voices' = [voices EXCEPT ![v].nodes[t] = got.node]
        /\ result' = PoolResult("getOrCreate", t, got.node)
  /\ UNCHANGED <<context, ctxState, masterGain, gainParam, toneVars, layers,
                 activeNodes, isPlaying, calls, microtasks, disposed, restVars,
                 mixerVars>>

InitPool ==
  /\ \E sizes \in [NodeTypes -> PoolSizes] :
       InitEngineWith("supraliminal", FALSE, FALSE, "running",
         [v \in 1..MaxVoices |->
            IF v \in PoolHolders
            THEN [NoVoice EXCEPT !.layer = v, !.nodes = HeldNodes(sizes, v)]
            ELSE NoVoice],
         [t \in NodeTypes |-> FilledPool(sizes[t])])
  /\ opsLeft = MaxPoolOps
  /\ freqInputs = {}
  /\ volumeInputs = {}
  /\ exactValue = FALSE
  /\ layerInputs = {}

NextPool ==
  \/ \E v \in PoolHolders, t \in NodeTypes : PoolReturn(v, t)
  \/ \E v \in PoolHolders, t \in NodeTypes : PoolGet(v, t)

SpecPool == InitPool /\ [][NextPool]_vars

\* a step that returns a node: discarded by a full pool, else pushed on top
ReturnedOrDiscarded ==
  LET t == result'.type
  IN IF Len(nodePool[t]) < MAX_POOL_SIZE
     THEN nodePool' = [nodePool EXCEPT ![t] = Append(@, result'.node)]
     ELSE nodePool' = nodePool /\ Pooled(result'.node, t) = {}

\* the node pushed by the step before is the one this acquire returns
PushedThenReturned ==
  /\ result.op = "returnNodeToPool"
  /\ result.type = result'.type
  /\ Pooled(result.node, result.type) # {}
  => result'.node = result.node

\* C30: no pool ever holds more than MAX_POOL_SIZE nodes; a node returned to
\* a full pool is discarded; a node returned to a pool below the maximum is
\* pushed and is what the next acquire of that type returns
C30_PoolBounded ==
  /\ [](\A t \in NodeTypes : Len(nodePool[t]) <= MAX_POOL_SIZE)
  /\ [][/\ result'.op = "returnNodeToPool" /\ opsLeft' # opsLeft
          => ReturnedOrDiscarded
        /\ result'.op = "getOrCreate" /\ opsLeft' # opsLeft
          => PushedThenReturned]_vars

\* a holder has given up its filter to a full pool, which does not hold it
Discarded ==
  \E v \in PoolHolders :
    /\ voices[v].nodes["filter"] = 0
    /\ nodePool["filter"] = FilledPool(MAX_POOL_SIZE)

\* a filter was discarded by its full pool, and a gain that was returned to
\* a pool one below the maximum has just been acquired again
C30_Witness ==
  /\ Discarded
  /\ result.op = "getOrCreate"
  /\ result.type = "gain"
  /\ result.node > MAX_POOL_SIZE
  /\ Len(nodePool["gain"]) = MAX_POOL_SIZE - 1

(***************************************************************************)
(* Parameter changes: cancel, snapshot, ramp                               *)
(***************************************************************************)
\* the events of a timeline that lie after now
PendingEvents(tl) == {j \in 1..Len(tl) : tl[j].t > 0}

\* what an operation leaves on a parameter when it cancels what was pending,
\* sets the live value at now and schedules its ramp: at most that ramp
OneOperationPending(tl) == Cardinality(PendingEvents(tl)) <= 1

\* C31: every operation on a gain or frequency parameter cancels what is
\* pending before it schedules its ramp, so no parameter ever carries the
\* pending automation of two operations
C31_CancelSnapshotRamp ==
  /\ \A g \in 1..MaxGains : OneOperationPending(gainParam[g])
  /\ \A g \in 1..MaxGraphs :
       OneOperationPending(graphs[g].left) /\ OneOperationPending(graphs[g].right)

(***************************************************************************)
(* Interleaved play() and stop() on a tone engine                          *)
(***************************************************************************)
\* the wait of some stop() has not elapsed yet
TeardownPending == \E s \in Slots : calls[s].pc = "stopTimer"

\* the sub-graphs whose oscillators run and feed the master gain
RunningGraphs == {g \in 1..MaxGraphs : graphs[g].alive}

\* C32: when the engine is idle and no teardown timer is pending, no
\* sub-graph that a play() built is still running
C32_IdleMeansSilent ==
  kind \in ToneKinds /\ state = "idle" /\ ~TeardownPending => RunningGraphs = {}

\* play() with valid frequencies and stop(), in any interleaving
InitInterleave ==
  /\ \E k \in Kinds : InitEngine(k, FALSE)
  /\ opsLeft = MaxOps
  /\ freqInputs = {<<4400, 100>>}
  /\ volumeInputs = {}
  /\ exactValue = FALSE
  /\ layerInputs = {}

NextInterleave ==
  \/ \E f \in freqInputs : PlayCall(f[1], f[2])
  \/ PlayAfterInit
  \/ \E s \in Slots : PlayAfterSettle(s)
  \/ StopCall
  \/ \E s \in Slots : StopTimer(s)
  \/ Tick

SpecInterleave == InitInterleave /\ [][NextInterleave]_vars

(***************************************************************************)
(* Every stop() returns                                                    *)
(***************************************************************************)
InitStops ==
  /\ InitEngine("binaural", FALSE)
  /\ opsLeft = MaxOps + 1
  /\ freqInputs = {<<4400, 100>>}
  /\ volumeInputs = {}
  /\ exactValue = FALSE
  /\ layerInputs = {}

\* what the host does without a caller: continuations, timers, the clock
HostStep ==
  \/ PlayAfterInit
  \/ \E s \in Slots : PlayAfterSettle(s)
  \/ \E s \in Slots : StopTimer(s)
  \/ Tick

\* the host does not stall while a continuation or a timer is outstanding
SpecStops == InitStops /\ [][NextInterleave]_vars /\ WF_vars(HostStep)

\* a stop() has been called and its promise is not resolved yet
StopPending == \E s \in Slots : calls[s].op = "stop"

\* C33: the promise of every stop() is eventually resolved; the callers
\* issue finitely many calls, so from any moment with a stop() pending a
\* moment follows at which none is
C33_StopReturns == StopPending ~> ~StopPending

\* ---------------------------------------------------------------------------
\* A session that ends with stop(): every play() is followed by at least one
\* more call, and the last call issued is stop().
\* ---------------------------------------------------------------------------
NextLastStop ==
  \/ opsLeft > 1 /\ \E f \in freqInputs : PlayCall(f[1], f[2])
  \/ StopCall
  \/ PlayAfterInit
  \/ \E s \in Slots : PlayAfterSettle(s)
  \/ \E s \in Slots : StopTimer(s)
  \/ Tick

SpecLastStop == InitInterleave /\ [][NextLastStop]_vars

\* No call is in flight and no continuation is queued.
Finished == microtasks = <<>> /\ \A s \in Slots : calls[s].op = "none"

\* C34: when stop() is the last operation issued, then once every pending
\* operation has finished the engine is not playing and no sub-graph of it is
\* still running, also when that stop() was issued during the implicit stop
\* or the settle delay of a play().
C34_LastStopWins ==
  opsLeft = 0 /\ Finished => state # "playing" /\ RunningGraphs = {}

\* the value the timeline tl is heading for: that of its last event
TargetOf(tl) == IF tl = <<>> THEN 0 ELSE tl[Len(tl)].v

\* C35: whenever an entry of the registry has muted = true, the target of its
\* send gain is the silence floor, under every sequence of setEngineVolume(),
\* muteEngine() and soloEngine().
C35_MutedIsSilent ==
  \A e \in Registered :
    connectedEngines[e].muted =>
      TargetOf(sendGains[connectedEngines[e].node].gain) <= FLOOR

\* ---------------------------------------------------------------------------
\* A Silent engine on a shared context that is played, connected to the mixer
\* and then stopped and played again
\* ---------------------------------------------------------------------------
InitOutput ==
  /\ InitEngine("session", TRUE)
  /\ opsLeft = MaxMixerOps + 1
  /\ freqInputs = {<<4400, 100>>}
  /\ volumeInputs = {GainOne \div 2}
  /\ exactValue = FALSE
  /\ layerInputs = {NoOptions}

NextOutput ==
  \/ \E f \in freqInputs : state = "idle" /\ PlayCall(f[1], f[2])
  \/ PlayAfterInit
  \/ StopCall
  \/ \E s \in Slots : StopTimer(s)
  \/ MixerInit
  \/ \E v \in volumeInputs : MixerConnectEngine(SessionEngine, v)
  \/ Tick

SpecOutput == InitOutput /\ [][NextOutput]_vars

\* C36: the output node that connectEngine() wired into the send gain stays
\* the output node of the engine: after any play() or stop() of an engine on
\* a shared context getOutputNode() returns that node and the current master
\* gain feeds it.
C36_OutputNodeStable ==
  \A e \in Registered :
    sendGains[connectedEngines[e].node].input = getOutputNode

\* ---------------------------------------------------------------------------
\* play(), setVolume(p), stop() and play() again, each call issued after the
\* one before it has finished and its ramp has run out
\* ---------------------------------------------------------------------------
InitPersist ==
  /\ \E k \in Kinds : InitEngine(k, FALSE)
  /\ opsLeft = 4
  /\ freqInputs = {<<4400, 100>>}
  /\ volumeInputs \in {{50}, {100}}
  /\ exactValue = FALSE
  /\ layerInputs = {}

\* the caller has awaited its last call and the master gain is at rest
AtRest ==
  /\ Finished
  /\ masterGain # 0 => PendingEvents(gainParam[masterGain]) = {}

NextPersist ==
  \/ opsLeft \in {4, 1} /\ AtRest /\ \E f \in freqInputs : PlayCall(f[1], f[2])
  \/ opsLeft = 3 /\ AtRest /\ \E p \in volumeInputs : SetVolume(p)
  \/ opsLeft = 2 /\ AtRest /\ StopCall
  \/ PlayAfterInit
  \/ \E s \in Slots : StopTimer(s)
  \/ Tick

SpecPersist == InitPersist /\ [][NextPersist]_vars

\* C37: a volume applied with setVolume(p) persists across stop() and
\* play(): the fade-in of the play() after the stop() takes the master gain
\* to the gain that setVolume(p) set, not to the configured initial volume.
C37_VolumePersists ==
  opsLeft = 0 /\ state = "playing" =>
    \A p \in volumeInputs :
      TargetOf(gainParam[masterGain]) = percentageToGain(p)

\* C38: when a layer of the Supraliminal engine starts sounding, on play() or
\* after a restart, the target of the fade-in of its gain is the stored
\* volume of the layer.
C38_FadeInToLayerVolume ==
  [][\A l \in LayerIds :
       (activeNodes[l] = 0 /\ activeNodes'[l] # 0) =>
         TargetOf(voices'[activeNodes'[l]].gain) = layers'[l].volume]_vars

\* ---------------------------------------------------------------------------
\* A message that is played without loop, stopped by the caller and played
\* again; a queued "ended" event is dispatched before the clock advances
\* ---------------------------------------------------------------------------
EndedQueued == \E g \in 1..MaxGraphs : graphs[g].messageSource.ended = "queued"

InitEnded ==
  /\ InitEngine("silent", FALSE)
  /\ opsLeft = MaxMessageOps + 2
  /\ freqInputs = {<<0, 5>>}
  /\ volumeInputs = {}
  /\ exactValue = FALSE
  /\ layerInputs = {NoOptions}

NextEnded ==
  \/ \E f \in {m \in MessageInputs : m.id = 1} : LoadAudioFileCall(f)
  \/ \E s \in Slots : LoadAudioFileDecoded(s)
  \/ PlayWithAMCall(FALSE)
  \/ PlayAfterInit
  \/ \E s \in Slots : PlayAfterSettle(s)
  \/ StopCall
  \/ \E s \in Slots : StopTimer(s)
  \/ \E g \in 1..MaxGraphs : MessageEnded(g)
  \/ ~EndedQueued /\ Tick

SpecEnded == InitEnded /\ [][NextEnded]_vars

\* C39: the "ended" event of a message source that was torn down or
\* superseded never stops a later playback: delivered after a stop() and a
\* new play() or playWithAM(), it leaves the new playback in state Playing.
C39_StaleEndedIgnored ==
  [][\A g \in 1..MaxGraphs :
       (MessageEnded(g) /\ g # subGraph /\ state = "playing") =>
         state' = "playing"]_vars

\* ---------------------------------------------------------------------------
\* The Supraliminal engine under play(), stop(), addLayer(), removeLayer(),
\* updateLayer() and the restarts they trigger, in every interleaving
\* ---------------------------------------------------------------------------
InitActive ==
  /\ InitEngine("supraliminal", FALSE)
  /\ opsLeft = MaxOps
  /\ freqInputs = {}
  /\ volumeInputs = {GainOne \div 2}
  /\ exactValue = FALSE
  /\ layerInputs = {NoOptions}

NextActive ==
  \/ SupraPlayCall
  \/ SupraPlayAfterInit
  \/ SupraStopCall
  \/ \E s \in Slots : SupraStopTimer(s)
  \/ \E s \in Slots : SupraRestartAfterSettle(s)
  \/ \E o \in layerInputs : SupraAddLayerCall(o)
  \/ SupraAddLayerAfterInit
  \/ \E s \in Slots : SupraAddLayerDecoded(s)
  \/ \E l \in LayerIds : SupraRemoveLayer(l)
  \/ \E l \in LayerIds, en \in BOOLEAN : SupraUpdateLayerEnabled(l, en)
  \/ Tick

SpecActive == InitActive /\ [][NextActive]_vars

\* C40: in every reachable state of the Supraliminal engine, under any
\* interleaving of play(), stop(), addLayer(), removeLayer(), updateLayer()
\* and the restarts they trigger, an engine that reports not playing has no
\* active voice: getActiveLayerCount() is 0.
C40_NotPlayingNoVoices ==
  (kind = "supraliminal" /\ ~isPlaying) => ActiveLayers(activeNodes) = {}

\* a stop() has torn down the voices of a playing engine
C40_Witness ==
  /\ kind = "supraliminal"
  /\ ~isPlaying
  /\ result = Res("stop", "OK")
  /\ \E x \in 1..MaxVoices : voices[x].layer # 0 /\ ~voices[x].alive
  /\ ActiveLayers(activeNodes) = {}

=============================================================================
